---- MODULE Spec2Model ----
(***************************************************************************)
(* Handle-lifetime model of the nwrfc-rs binding: Connection, Function,    *)
(* Parameter / Structure / Table views, and the deadpool adapter.  The     *)
(* native SAP NW RFC library is the environment: every native call draws   *)
(* its status (or returned handle) from the values the library can return. *)
(***************************************************************************)
EXTENDS Integers, Sequences, FiniteSets, TLC

\* ------------------------------------------------------------------------
\* Bounds of the model
\* ------------------------------------------------------------------------
MaxFuncs == 2
MaxTables == 2
MaxRowViews == 1
MaxViewedRows == 2
MaxViews == 1
MaxLeaks == 1
MaxThreads == 2
MaxGens == 2
MaxTasks == 2
MaxSlots == 2
MaxStrLen == 3
MaxSets == 3

TabIds == 1..MaxTables
FuncIds == 1..MaxFuncs
ViewIds == 1..MaxViews
Threads == 1..MaxThreads
Tasks == 1..MaxTasks
Slots == 1..MaxSlots

\* ------------------------------------------------------------------------
\* Status codes, handles, error records
\* ------------------------------------------------------------------------
RFC_OK == "RFC_OK"
RFC_COMMUNICATION_FAILURE == "RFC_COMMUNICATION_FAILURE"
RFC_ILLEGAL_STATE == "RFC_ILLEGAL_STATE"
RFC_BUFFER_TOO_SMALL == "RFC_BUFFER_TOO_SMALL"
RFC_UNKNOWN_ERROR == "RFC_UNKNOWN_ERROR"
EXTERNAL_APPLICATION_FAILURE == "EXTERNAL_APPLICATION_FAILURE"

\* statuses a native entry point can return
RC == {RFC_OK, RFC_COMMUNICATION_FAILURE, RFC_ILLEGAL_STATE}
\* statuses the wide-character converter can return
ConvRC == {RFC_OK, RFC_BUFFER_TOO_SMALL, RFC_COMMUNICATION_FAILURE}

\* ptr::null_mut()
Null == 0
\* handle values the native library hands out
ConnHandle == 1
\* names the caller passes; the native repository knows only some of them
FuncNames == {"SCP_STRING_ECHO", "INVALID_TEST_FUNCTION_NAME"}
KnownFuncs == {"SCP_STRING_ECHO"}
ParamNames == {"IMP", "INVALID"}
KnownParams == {"IMP"}
\* the description of a module is cached by the native runtime: every lookup
\* of the name returns the same handle
DescHandle(name) == 11
FuncHandle(f) == 20 + f
SubHandle(v) == 30 + v
DescHandles == {DescHandle(n) : n \in KnownFuncs}
FuncHandles == {FuncHandle(f) : f \in FuncIds}
SubHandles == {SubHandle(v) : v \in ViewIds}
Handles == {ConnHandle} \cup DescHandles \cup FuncHandles \cup SubHandles

\* RfcErrorInfo::new(): the zero-initialised record
RfcErrorInfo_new == [code |-> RFC_OK, group |-> "OK", message |-> ""]

\* the record the native library writes through the err_info out-parameter
NativeErr(fn, rc) ==
    IF rc = RFC_OK THEN RfcErrorInfo_new
    ELSE [code |-> rc, group |-> "NATIVE", message |-> fn]

\* one native call as the library saw it: entry point, handle argument,
\* returned status, returned handle (if it returns one) and the error
\* record it wrote
Call2(fn, h, h2, rc) ==
    [fn |-> fn, h |-> h, h2 |-> h2, rc |-> rc, ret |-> Null, err |-> NativeErr(fn, rc)]
Call(fn, h, rc) == Call2(fn, h, Null, rc)

\* a native call that reports failure by returning a null handle
HandleCall(fn, h, ret) ==
    [Call(fn, h, IF ret = Null THEN RFC_COMMUNICATION_FAILURE ELSE RFC_OK)
        EXCEPT !.ret = ret]

NoVal == "none"
Ok(v) == [ok |-> TRUE, err |-> RfcErrorInfo_new, val |-> v]
Err(e) == [ok |-> FALSE, err |-> e, val |-> NoVal]

is_rc_err_Lenient(rc) == rc \notin {RFC_OK, RFC_ILLEGAL_STATE}

\* macro is_rc_err!
is_rc_err(rc) == rc # RFC_OK

\* macro check_rc_ok!: the error returned for a status, or "pass"
check_rc_ok(call) == IF is_rc_err(call.rc) THEN Err(call.err) ELSE Ok(NoVal)

\* ------------------------------------------------------------------------
\* uc::from_str: encode with one retry on RFC_BUFFER_TOO_SMALL
\* ------------------------------------------------------------------------
from_str(value, e) ==
    LET c1 == Call("RfcUTF8ToSAPUC", Null, e[1])
        c2 == Call("RfcUTF8ToSAPUC", Null, e[2])
    IN  IF e[1] = RFC_BUFFER_TOO_SMALL
        THEN [calls |-> <<c1, c2>>,
              res   |-> IF is_rc_err(e[2]) THEN Err(c2.err) ELSE Ok(<<"uc", value>>)]
        ELSE [calls |-> <<c1>>,
              res   |-> IF is_rc_err(e[1]) THEN Err(c1.err) ELSE Ok(<<"uc", value>>)]

\* replies of the converter to one encode / decode: the reply to the retry
\* is only drawn when the first call reported RFC_BUFFER_TOO_SMALL
ConvReplies == {r \in ConvRC \X ConvRC : r[1] # RFC_BUFFER_TOO_SMALL => r[2] = RFC_OK}

\* the converter replies with which an encode / decode gets its buffer
ConvOk(e) == e[1] = RFC_OK \/ (e[1] = RFC_BUFFER_TOO_SMALL /\ e[2] = RFC_OK)

\* ------------------------------------------------------------------------
\* State
\* ------------------------------------------------------------------------
VARIABLES
    conn,       \* the RfcConnection object: st, handle, closes
    funcs,      \* the RfcFunction objects: st, name, desc, func, nFunc, nDesc
    views,      \* RfcParameter / RfcStructure / RfcTable views
    acq,        \* per native handle: times the binding obtained it
    rel,        \* per native handle: release calls the binding issued on it
    nativeLive, \* handles the native library still considers valid
    stale,      \* native entry points that were called on an invalid handle
    last,       \* the most recent operation: op, obj, res, calls, warns
    funcThread, \* the thread that owns each RfcFunction
    inNative,   \* per thread: the native call it is inside, if any
    pool,       \* per slot of the pool: its SyncWrapper<RfcConnection>
    conv,       \* the most recent text conversion: input and result
    builder,    \* an RfcConnectionBuilder and what build handed to the library
    data        \* the native data containers of one function module

vars == <<conn, funcs, views, acq, rel, nativeLive, stale, last,
          funcThread, inNative, pool, conv, builder, data>>

\* everything but the text conversions, the builder and the containers
coreVars == <<conn, funcs, views, acq, rel, nativeLive, stale, last,
              funcThread, inNative, pool>>

NoFunc == [st |-> "absent", name |-> "", desc |-> Null, func |-> Null,
           nFunc |-> 0, nDesc |-> 0]
NoView == [st |-> "absent", kind |-> "", owner |-> 0, name |-> "", sub |-> Null]
\* the thread that opens the connection and owns it
MainThread == 1
NotInNative == [fn |-> "", h |-> Null, obj |-> 0]
NoPool == [st |-> "absent", gen |-> 0, handle |-> Null, poisoned |-> FALSE,
           inside |-> {}, failed |-> {}]

NoConv == [op |-> "init"]
\* RfcConnectionBuilder::new: no parameter set; nothing handed to the library
NoOut == [called |-> FALSE, passed |-> <<>>, res |-> Ok(Null)]
NoBuilder == [op |-> "init", params |-> <<>>, hist |-> <<>>, name |-> <<>>,
              term |-> 0, ret |-> Null, out |-> NoOut]
\* a string field nothing was written to yet
NoField == [op |-> "init", variant |-> "", value |-> <<>>, stored |-> <<>>,
            setOk |-> FALSE, encoded |-> FALSE, passed |-> 0, bufLen |-> 0,
            queried |-> 0, reported |-> 0, decoded |-> 0, calls |-> <<>>,
            res |-> Ok(<<>>)]
\* integer fields of the structures of STFC_STRUCTURE
IntFields == {"RFCINT1", "RFCINT2", "RFCINT4"}
\* the containers of an echo module nothing was written to yet: the import
\* and export string parameters (SCP_STRING_ECHO) or the import and the
\* echoed structure (STFC_STRUCTURE); the first access resolves the module
NoEcho == [op |-> "init", module |-> "", variant |-> "", value |-> <<>>, strSet |-> FALSE,
           imp |-> <<>>, exp |-> <<>>,
           wrote |-> {}, written |-> [f \in IntFields |-> 0],
           impInts |-> [f \in IntFields |-> 0], expInts |-> [f \in IntFields |-> 0],
           invoked |-> FALSE, field |-> "", res |-> Ok(NoVal)]
\* a table parameter of a fresh function: no rows; added / deleted count the
\* rows the binding reported appended or inserted / deleted since the last
\* clear, before is the row count ahead of the last operation
NoTable == [op |-> "init", index |-> 0, rows |-> 0, cur |-> 0, ids |-> <<>>,
            was |-> <<>>, added |-> 0, deleted |-> 0, before |-> 0,
            res |-> Ok(NoVal), calls |-> <<>>, row |-> 0]
\* the RfcTable values of one table parameter and the row structures they
\* handed out: held are the rows with a live RfcStructure<'row>, excl says
\* that the live one came from append_row / insert_row (&'row mut self);
\* dangling are the live row structures whose row the library has removed
NoTab == [st |-> "absent", held |-> {}, excl |-> FALSE]
NoRows == [tabs |-> [tb \in TabIds |-> NoTab], dangling |-> {},
           use |-> [tab |-> 0, row |-> 0, removed |-> FALSE]]
NoData == [str |-> NoField, echo |-> NoEcho, tab |-> NoTable, rv |-> NoRows]

Init ==
    /\ conn = [st |-> "absent", handle |-> Null, closes |-> 0]
    /\ funcs = [f \in FuncIds |-> NoFunc]
    /\ views = [v \in ViewIds |-> NoView]
    /\ acq = [h \in Handles |-> 0]
    /\ rel = [h \in Handles |-> 0]
    /\ nativeLive = {}
    /\ stale = {}
    /\ last = [op |-> "init", obj |-> 0, res |-> Ok(NoVal), calls |-> <<>>, warns |-> {}]
    /\ funcThread = [f \in FuncIds |-> MainThread]
    /\ inNative = [t \in Threads |-> NotInNative]
    /\ pool = [s \in Slots |-> NoPool]
    /\ conv = NoConv
    /\ builder = NoBuilder
    /\ data = NoData

\* native calls of a trace that were given a handle the library no longer
\* (or never) considered valid
StaleCalls(calls, live) ==
    {calls[i].fn : i \in {j \in 1..Len(calls) :
        \/ calls[j].fn # "RfcUTF8ToSAPUC" /\ calls[j].fn # "RfcOpenConnection"
           /\ calls[j].h \notin live
        \/ calls[j].h2 # Null /\ calls[j].h2 \notin live}}

Done(op, obj, res, calls, warns) ==
    /\ last' = [op |-> op, obj |-> obj, res |-> res, calls |-> calls, warns |-> warns]
    /\ stale' = stale \cup StaleCalls(calls, nativeLive)
    /\ UNCHANGED <<funcThread, inNative, pool, conv, builder, data>>

Bump(cnt, hs) == [h \in Handles |-> IF h \in hs THEN cnt[h] + 1 ELSE cnt[h]]

\* ------------------------------------------------------------------------
\* RfcConnection
\* ------------------------------------------------------------------------
RfcConnection_new_NoNullCheck(ret) == Ok(ret)

\* RfcConnection::new: the result for the handle RfcOpenConnection returned
RfcConnection_new(ret) ==
    IF ret = Null THEN Err(NativeErr("RfcOpenConnection", RFC_COMMUNICATION_FAILURE))
    ELSE Ok(ret)

Open(ret) ==
    /\ conn.st = "absent"
    /\ LET res == RfcConnection_new(ret)
       IN  /\ conn' = IF res.ok THEN [conn EXCEPT !.st = "live", !.handle = res.val]
                                ELSE conn
           /\ acq' = Bump(acq, {ret} \ {Null})
           /\ nativeLive' = nativeLive \cup ({ret} \ {Null})
           /\ Done("open", 0, res, <<HandleCall("RfcOpenConnection", Null, ret)>>, {})
    /\ UNCHANGED <<funcs, views, rel>>

Ping_NullsOnFailure(rc) ==
    /\ conn.st = "live"
    /\ LET call == Call("RfcPing", conn.handle, rc)
       IN  /\ Done("ping", 0, check_rc_ok(call), <<call>>, {})
           /\ conn' = IF is_rc_err(rc) THEN [conn EXCEPT !.handle = Null] ELSE conn
    /\ UNCHANGED <<funcs, views, acq, rel, nativeLive>>

\* RfcConnection::ping
Ping(rc) ==
    /\ conn.st = "live"
    /\ LET call == Call("RfcPing", conn.handle, rc)
       IN  Done("ping", 0, check_rc_ok(call), <<call>>, {})
    /\ UNCHANGED <<conn, funcs, views, acq, rel, nativeLive>>

HandleAfterRelease_Kept(h) == h

\* the value a release path leaves in the handle slot: ptr::null_mut()
HandleAfterRelease(h) == Null

\* the connection is borrowed while an RfcFunction<'conn> holds &'conn handle
ConnBorrowed == \E f \in FuncIds : funcs[f].st = "live"

CloseWarns_Silent(rc) == {}

\* log::warn! condition of impl Drop for RfcConnection
CloseWarns(rc) == IF is_rc_err(rc) THEN {"Connection close failed"} ELSE {}

\* impl Drop for RfcConnection
DropConnection(rc) ==
    /\ conn.st \in {"live", "dropped"}
    /\ ~ConnBorrowed
    /\ IF conn.handle # Null
       THEN LET call == Call("RfcCloseConnection", conn.handle, rc)
            IN  /\ conn' = [st |-> "dropped",
                            handle |-> HandleAfterRelease(conn.handle),
                            closes |-> conn.closes + 1]
                /\ rel' = Bump(rel, {conn.handle})
                /\ nativeLive' = nativeLive \ {conn.handle}
                /\ Done("drop_conn", 0, Ok(NoVal), <<call>>, CloseWarns(rc))
       ELSE /\ rc = RFC_OK
            /\ conn' = [conn EXCEPT !.st = "dropped"]
            /\ UNCHANGED <<rel, nativeLive>>
            /\ Done("drop_conn", 0, Ok(NoVal), <<>>, {})
    /\ UNCHANGED <<funcs, views, acq>>

\* ------------------------------------------------------------------------
\* RfcFunction
\* ------------------------------------------------------------------------
RfcFunction_new_Swapped(name, desc, func) ==
    [st |-> "live", name |-> name, desc |-> func, func |-> desc,
     nFunc |-> 0, nDesc |-> 0]

\* RfcFunction::new: which handle goes to which slot
RfcFunction_new(name, desc, func) ==
    [st |-> "live", name |-> name, desc |-> desc, func |-> func,
     nFunc |-> 0, nDesc |-> 0]

\* the first free RfcFunction slot of the caller's scope
NextFunc == CHOOSE f \in FuncIds :
    funcs[f].st = "absent" /\ \A g \in FuncIds : funcs[g].st = "absent" => f <= g

\* objects of the binding that currently hold handle h
Holders(h) ==
    Cardinality({f \in FuncIds : funcs[f].st = "live" /\ funcs[f].desc = h})
    + Cardinality({f \in FuncIds : funcs[f].st = "live" /\ funcs[f].func = h})
    + (IF conn.st = "live" /\ conn.handle = h THEN 1 ELSE 0)

\* acquisitions of h that no object holds and no release call has matched
LeakCount(h) == acq[h] - rel[h] - Holders(h)

\* RfcConnection::get_function: the native calls it makes and its result,
\* for the handles RfcGetFunctionDesc and RfcCreateFunction return
get_function(name, e, dret, fret) ==
    LET enc   == from_str(name, e)
        dcall == HandleCall("RfcGetFunctionDesc", conn.handle, dret)
        fcall == HandleCall("RfcCreateFunction", dret, fret)
    IN  IF ~enc.res.ok
        THEN [calls |-> enc.calls, res |-> Err(enc.res.err), got |-> {}]
        ELSE IF dret = Null
        THEN [calls |-> enc.calls \o <<dcall>>, res |-> Err(dcall.err), got |-> {}]
        ELSE IF fret = Null
        THEN [calls |-> enc.calls \o <<dcall, fcall>>, res |-> Err(fcall.err),
              got |-> {dret}]
        ELSE [calls |-> enc.calls \o <<dcall, fcall>>,
              res |-> Ok(RfcFunction_new(name, dret, fret)), got |-> {dret, fret}]

\* inputs of get_function: the name, the converter replies, whether the
\* repository resolves the name and whether the instance can be created
GetFunctionInputs == {i \in FuncNames \X ConvReplies \X BOOLEAN \X BOOLEAN :
    /\ i[3] => (ConvOk(i[2]) /\ i[1] \in KnownFuncs)
    /\ i[4] => i[3]}

GetFunction(name, e, found, created) ==
    /\ conn.st = "live"
    /\ \E f \in FuncIds : funcs[f].st = "absent"
    /\ LET dret == IF found THEN DescHandle(name) ELSE Null
           fret == IF created THEN FuncHandle(NextFunc) ELSE Null
           r    == get_function(name, e, dret, fret)
       IN  /\ (found /\ ~created) => LeakCount(dret) < MaxLeaks
           /\ funcs' = IF r.res.ok THEN [funcs EXCEPT ![NextFunc] = r.res.val] ELSE funcs
           /\ acq' = Bump(acq, r.got)
           /\ nativeLive' = nativeLive \cup r.got
           /\ Done("get_function", NextFunc, r.res, r.calls, {})
    /\ UNCHANGED <<conn, views, rel>>

\* RfcFunction::invoke
Invoke(f, rc) ==
    /\ funcs[f].st = "live"
    /\ LET call == Call2("RfcInvoke", conn.handle, funcs[f].func, rc)
       IN  Done("invoke", f, check_rc_ok(call), <<call>>, {})
    /\ UNCHANGED <<conn, funcs, views, acq, rel, nativeLive>>

FuncBorrowed_NoLifetime(f) == FALSE

\* the function is borrowed while a view holds &'func of its instance handle
FuncBorrowed(f) == \E v \in ViewIds : views[v].st = "live" /\ views[v].owner = f

FuncDiscardWarns_IllegalStateSilenced(rc) ==
    IF rc \notin {RFC_OK, RFC_ILLEGAL_STATE} THEN {"Function discard failed"} ELSE {}

\* log::warn! conditions of impl Drop for RfcFunction
FuncDiscardWarns(rc) ==
    IF is_rc_err(rc) THEN {"Function discard failed"} ELSE {}
DescDiscardWarns(rc) ==
    IF is_rc_err(rc) /\ rc # RFC_ILLEGAL_STATE
    THEN {"Function description discard failed"} ELSE {}

DropFunctionCalls_DescFirst(func, desc, rcF, rcD) ==
    (IF desc # Null THEN <<Call("RfcDestroyFunctionDesc", desc, rcD)>> ELSE <<>>)
    \o (IF func # Null THEN <<Call("RfcDestroyFunction", func, rcF)>> ELSE <<>>)

\* the native calls of impl Drop for RfcFunction, in the order it issues them
DropFunctionCalls(func, desc, rcF, rcD) ==
    (IF func # Null THEN <<Call("RfcDestroyFunction", func, rcF)>> ELSE <<>>)
    \o (IF desc # Null THEN <<Call("RfcDestroyFunctionDesc", desc, rcD)>> ELSE <<>>)

DropFunction_FreesCached(f, rcF, rcD) ==
    /\ funcs[f].st \in {"live", "dropped"}
    /\ ~FuncBorrowed(f)
    /\ LET func  == funcs[f].func
           desc  == funcs[f].desc
           calls == DropFunctionCalls(func, desc, rcF, rcD)
           hs    == {calls[i].h : i \in 1..Len(calls)}
       IN  /\ func = Null => rcF = RFC_OK
           /\ desc = Null => rcD = RFC_OK
           /\ funcs' = [funcs EXCEPT ![f] =
                  [@ EXCEPT !.st = "dropped",
                            !.func = IF func # Null THEN HandleAfterRelease(func) ELSE func,
                            !.desc = IF desc # Null THEN HandleAfterRelease(desc) ELSE desc,
                            !.nFunc = @ + (IF func # Null THEN 1 ELSE 0),
                            !.nDesc = @ + (IF desc # Null THEN 1 ELSE 0)]]
           /\ rel' = Bump(rel, hs)
           /\ nativeLive' = nativeLive \ (hs \cup
                  {views[v].sub : v \in {w \in ViewIds : views[w].owner = f}})
           /\ Done("drop_func", f, Ok(NoVal), calls,
                   (IF func # Null THEN FuncDiscardWarns(rcF) ELSE {})
                   \cup (IF desc # Null THEN DescDiscardWarns(rcD) ELSE {}))
    /\ UNCHANGED <<conn, views, acq>>

\* impl Drop for RfcFunction
DropFunction(f, rcF, rcD) ==
    /\ funcs[f].st \in {"live", "dropped"}
    /\ ~FuncBorrowed(f)
    /\ LET func  == funcs[f].func
           desc  == funcs[f].desc
           calls == DropFunctionCalls(func, desc, rcF, rcD)
           hs    == {calls[i].h : i \in 1..Len(calls)}
           gone  == {calls[i].h : i \in {j \in 1..Len(calls) :
                        calls[j].fn = "RfcDestroyFunction" \/ calls[j].rc = RFC_OK}}
                    \cup {views[v].sub : v \in {w \in ViewIds : views[w].owner = f}}
       IN  /\ func = Null => rcF = RFC_OK
           /\ desc = Null => rcD = RFC_OK
           /\ funcs' = [funcs EXCEPT ![f] =
                  [@ EXCEPT !.st = "dropped",
                            !.func = IF func # Null THEN HandleAfterRelease(func) ELSE func,
                            !.desc = IF desc # Null THEN HandleAfterRelease(desc) ELSE desc,
                            !.nFunc = @ + (IF func # Null THEN 1 ELSE 0),
                            !.nDesc = @ + (IF desc # Null THEN 1 ELSE 0)]]
           /\ rel' = Bump(rel, hs)
           /\ nativeLive' = nativeLive \ gone
           /\ Done("drop_func", f, Ok(NoVal), calls,
                   (IF func # Null THEN FuncDiscardWarns(rcF) ELSE {})
                   \cup (IF desc # Null THEN DescDiscardWarns(rcD) ELSE {}))
    /\ UNCHANGED <<conn, views, acq>>

\* ------------------------------------------------------------------------
\* RfcParameter / RfcStructure / RfcTable views
\* ------------------------------------------------------------------------
Ints == {0, 42}
Strs == {"", "Test String"}
RowIndexes == {0, 1}

\* RfcErrorInfo::custom
RfcErrorInfo_custom(message) ==
    [code |-> RFC_UNKNOWN_ERROR, group |-> EXTERNAL_APPLICATION_FAILURE,
     message |-> message]

\* uc::to_string: decode with one retry on RFC_BUFFER_TOO_SMALL, then
\* String::from_utf8 on the converted bytes
to_string(value, d, valid) ==
    LET c1 == Call("RfcSAPUCToUTF8", Null, d[1])
        c2 == Call("RfcSAPUCToUTF8", Null, d[2])
        utf8 == IF valid THEN Ok(value) ELSE Err(RfcErrorInfo_custom("FromUtf8Error"))
    IN  IF d[1] = RFC_BUFFER_TOO_SMALL
        THEN [calls |-> <<c1, c2>>,
              res   |-> IF is_rc_err(d[2]) THEN Err(c2.err) ELSE utf8]
        ELSE [calls |-> <<c1>>,
              res   |-> IF is_rc_err(d[1]) THEN Err(c1.err) ELSE utf8]

\* the data container handle a view passes to the native accessors:
\* *self.handle for a parameter, the structure / table handle otherwise
Container(v) ==
    IF views[v].kind = "param" THEN funcs[views[v].owner].func ELSE views[v].sub

ViewOp(op, v, r) ==
    /\ Done(op, v, r.res, r.calls, {})
    /\ UNCHANGED <<conn, funcs, views, acq, rel, nativeLive>>

\* RfcFunction::get_parameter
get_parameter(f, name, e, rc) ==
    LET enc  == from_str(name, e)
        call == Call("RfcGetParameterDescByName", funcs[f].desc, rc)
    IN  IF ~enc.res.ok THEN [calls |-> enc.calls, res |-> Err(enc.res.err)]
        ELSE IF is_rc_err(rc)
        THEN [calls |-> enc.calls \o <<call>>, res |-> Err(call.err)]
        ELSE [calls |-> enc.calls \o <<call>>,
              res |-> Ok([st |-> "live", kind |-> "param", owner |-> f,
                          name |-> name, sub |-> Null])]

\* a name and converter replies, then the status of the native call that
\* takes the encoded name (drawn only when the encoding succeeded)
NamedInputs(names) == {i \in names \X ConvReplies \X RC : ~ConvOk(i[2]) => i[3] = RFC_OK}

\* the description knows only some parameter names
GetParameterInputs == {i \in NamedInputs(ParamNames) :
    (ConvOk(i[2]) /\ i[1] \notin KnownParams) => is_rc_err(i[3])}

GetParameter(v, f, name, e, rc) ==
    /\ funcs[f].st = "live"
    /\ views[v].st = "absent"
    /\ LET r == get_parameter(f, name, e, rc)
       IN  /\ views' = IF r.res.ok THEN [views EXCEPT ![v] = r.res.val] ELSE views
           /\ Done("get_parameter", v, r.res, r.calls, {})
    /\ UNCHANGED <<conn, funcs, acq, rel, nativeLive>>

\* RfcParameter::set_int
SetInt(v, value, rc) ==
    /\ views[v].st = "live" /\ views[v].kind = "param"
    /\ LET call == Call("RfcSetInt", Container(v), rc)
       IN  ViewOp("set_int", v, [calls |-> <<call>>, res |-> check_rc_ok(call)])

\* a status and the value the native call wrote (drawn only on RFC_OK)
ValueInputs(vals) == {i \in RC \X vals : is_rc_err(i[1]) => i[2] = CHOOSE x \in vals : TRUE}

\* RfcParameter::get_int
GetInt(v, rc, value) ==
    /\ views[v].st = "live" /\ views[v].kind = "param"
    /\ LET call == Call("RfcGetInt", Container(v), rc)
       IN  ViewOp("get_int", v, [calls |-> <<call>>,
               res |-> IF is_rc_err(rc) THEN Err(call.err) ELSE Ok(value)])

\* RfcParameter::set_string
set_string(h, value, e, rc) ==
    LET enc  == from_str(value, e)
        call == Call("RfcSetString", h, rc)
    IN  IF ~enc.res.ok THEN [calls |-> enc.calls, res |-> Err(enc.res.err)]
        ELSE [calls |-> enc.calls \o <<call>>, res |-> check_rc_ok(call)]

SetString(v, value, e, rc) ==
    /\ views[v].st = "live" /\ views[v].kind = "param"
    /\ ViewOp("set_string", v, set_string(Container(v), value, e, rc))

\* RfcParameter::get_string
get_string(h, rcLen, rcGet, value, d, valid) ==
    LET clen == Call("RfcGetStringLength", h, rcLen)
        cget == Call("RfcGetString", h, rcGet)
        dec  == to_string(value, d, valid)
    IN  IF is_rc_err(rcLen) THEN [calls |-> <<clen>>, res |-> Err(clen.err)]
        ELSE IF is_rc_err(rcGet) THEN [calls |-> <<clen, cget>>, res |-> Err(cget.err)]
        ELSE [calls |-> <<clen, cget>> \o dec.calls, res |-> dec.res]

\* statuses of the length query and the fetch, the fetched text, the
\* converter replies and whether the converted bytes are legal UTF-8; what
\* a failed step leaves undrawn is fixed
GetStringInputs == {i \in RC \X RC \X Strs \X ConvReplies \X BOOLEAN :
    /\ is_rc_err(i[1]) => i[2] = RFC_OK
    /\ (is_rc_err(i[1]) \/ is_rc_err(i[2])) =>
          (i[3] = "" /\ i[4] = <<RFC_OK, RFC_OK>> /\ i[5])
    /\ ~ConvOk(i[4]) => (i[3] = "" /\ i[5])
    /\ ~i[5] => i[3] = ""}

GetString(v, rcLen, rcGet, value, d, valid) ==
    /\ views[v].st = "live" /\ views[v].kind = "param"
    /\ ViewOp("get_string", v, get_string(Container(v), rcLen, rcGet, value, d, valid))

\* RfcParameter::as_structure / as_table of the parameter view p, into slot
\* v: the native get, then RfcDescribeType
as_view(kind, p, v, rc, described) ==
    LET fn    == IF kind = "struct" THEN "RfcGetStructure" ELSE "RfcGetTable"
        call  == Call(fn, funcs[p.owner].func, rc)
        dcall == HandleCall("RfcDescribeType", SubHandle(v),
                            IF described THEN SubHandle(v) ELSE Null)
    IN  IF is_rc_err(rc) THEN [calls |-> <<call>>, res |-> Err(call.err), got |-> {}]
        ELSE IF ~described
        THEN [calls |-> <<call, dcall>>, res |-> Err(dcall.err), got |-> {SubHandle(v)}]
        ELSE [calls |-> <<call, dcall>>,
              res |-> Ok([p EXCEPT !.kind = kind, !.sub = SubHandle(v)]),
              got |-> {SubHandle(v)}]

AsViewInputs == {i \in {"struct", "table"} \X RC \X BOOLEAN : is_rc_err(i[2]) => i[3]}

AsView(kind, v, rc, described) ==
    /\ views[v].st = "live" /\ views[v].kind = "param"
    /\ LET r == as_view(kind, views[v], v, rc, described)
       IN  /\ views' = [views EXCEPT ![v] = IF r.res.ok THEN r.res.val ELSE NoView]
           /\ last' = [op |-> "as_" \o kind, obj |-> v, res |-> r.res,
                       calls |-> r.calls, warns |-> {}]
           /\ stale' = stale \cup StaleCalls(r.calls, nativeLive \cup r.got)
           /\ nativeLive' = nativeLive \cup (IF r.res.ok THEN r.got ELSE {})
    /\ UNCHANGED <<conn, funcs, acq, rel, funcThread, inNative, pool, conv, builder, data>>

\* the parameters of the modules the tests call, by the type the library
\* knows them under ("" for a name it does not know)
ShortcutNames == {"IMP", "IMPORTSTRUCT", "RFCTABLE", "INVALID"}
NativeKind(name) ==
    CASE name = "IMPORTSTRUCT" -> "struct"
      [] name = "RFCTABLE" -> "table"
      [] name = "IMP" -> "string"
      [] OTHER -> ""

\* RfcFunction::get_structure / get_table:
\* self.get_parameter(name).and_then(|p| p.as_structure() / p.as_table())
get_view_Unchecked(kind, f, v, name, e, rc, rc2, described) ==
    LET p == get_parameter(f, name, e, rc)
        a == as_view(kind, [st |-> "live", kind |-> "param", owner |-> f,
                            name |-> name, sub |-> Null], v, rc2, described)
    IN  [calls |-> p.calls \o a.calls, res |-> a.res, got |-> a.got]

get_view(kind, f, v, name, e, rc, rc2, described) ==
    LET p == get_parameter(f, name, e, rc)
        a == as_view(kind, p.res.val, v, rc2, described)
    IN  IF ~p.res.ok THEN [calls |-> p.calls, res |-> p.res, got |-> {}]
        ELSE [calls |-> p.calls \o a.calls, res |-> a.res, got |-> a.got]

\* a kind, a name with the converter's replies and the status of the lookup
\* by name, then the status of the native get and whether RfcDescribeType
\* returned a handle.  The library fails the lookup of a name it does not
\* know and the get of a parameter of another type.
GetViewInputs ==
    {i \in {"struct", "table"} \X NamedInputs(ShortcutNames) \X RC \X BOOLEAN :
        /\ (ConvOk(i[2][2]) /\ NativeKind(i[2][1]) = "") => is_rc_err(i[2][3])
        /\ (~ConvOk(i[2][2]) \/ is_rc_err(i[2][3])) => (i[3] = RFC_OK /\ i[4])
        /\ NativeKind(i[2][1]) # i[1] => is_rc_err(i[3])
        /\ is_rc_err(i[3]) => i[4]}

GetView(kind, v, f, name, e, rc, rc2, described) ==
    /\ funcs[f].st = "live"
    /\ views[v].st = "absent"
    /\ LET r == get_view(kind, f, v, name, e, rc, rc2, described)
       IN  /\ views' = IF r.res.ok THEN [views EXCEPT ![v] = r.res.val] ELSE views
           /\ last' = [op |-> "get_" \o kind, obj |-> v, res |-> r.res,
                       calls |-> r.calls, warns |-> {}]
           /\ stale' = stale \cup StaleCalls(r.calls, nativeLive \cup r.got)
           /\ nativeLive' = nativeLive \cup (IF r.res.ok THEN r.got ELSE {})
    /\ UNCHANGED <<conn, funcs, acq, rel, funcThread, inNative, pool, conv, builder, data>>

\* RfcStructure::set_int / get_int (by field name)
StructSetInt(v, name, value, e, rc) ==
    /\ views[v].st = "live" /\ views[v].kind = "struct"
    /\ LET enc  == from_str(name, e)
           call == Call("RfcSetInt", Container(v), rc)
       IN  ViewOp("struct_set_int", v,
               IF ~enc.res.ok THEN [calls |-> enc.calls, res |-> Err(enc.res.err)]
               ELSE [calls |-> enc.calls \o <<call>>, res |-> check_rc_ok(call)])

StructGetIntInputs == {i \in NamedInputs(ParamNames) \X Ints :
    (~ConvOk(i[1][2]) \/ is_rc_err(i[1][3])) => i[2] = 0}

StructGetInt(v, name, e, rc, value) ==
    /\ views[v].st = "live" /\ views[v].kind = "struct"
    /\ LET enc  == from_str(name, e)
           call == Call("RfcGetInt", Container(v), rc)
       IN  ViewOp("struct_get_int", v,
               IF ~enc.res.ok THEN [calls |-> enc.calls, res |-> Err(enc.res.err)]
               ELSE [calls |-> enc.calls \o <<call>>,
                     res |-> IF is_rc_err(rc) THEN Err(call.err) ELSE Ok(value)])

\* RfcTable::row_count
RowCount(v, rc, count) ==
    /\ views[v].st = "live" /\ views[v].kind = "table"
    /\ LET call == Call("RfcGetRowCount", Container(v), rc)
       IN  ViewOp("row_count", v, [calls |-> <<call>>,
               res |-> IF is_rc_err(rc) THEN Err(call.err) ELSE Ok(count)])

\* RfcTable::clear_rows
ClearRows(v, rc) ==
    /\ views[v].st = "live" /\ views[v].kind = "table"
    /\ LET call == Call("RfcDeleteAllRows", Container(v), rc)
       IN  ViewOp("clear_rows", v, [calls |-> <<call>>, res |-> check_rc_ok(call)])

\* RfcTable::current_row: RfcGetCurrentRow, then RfcGetRowType
current_row(h, row, rowType) ==
    LET crow  == HandleCall("RfcGetCurrentRow", h, IF row THEN h ELSE Null)
        ctype == HandleCall("RfcGetRowType", h, IF rowType THEN h ELSE Null)
    IN  IF ~row THEN [calls |-> <<crow>>, res |-> Err(crow.err)]
        ELSE IF ~rowType THEN [calls |-> <<crow, ctype>>, res |-> Err(ctype.err)]
        ELSE [calls |-> <<crow, ctype>>, res |-> Ok("row")]

\* RfcTable::get_row / get_first_row / get_last_row: move the cursor, then
\* materialise the current row
MoveFn == {"RfcMoveTo", "RfcMoveToFirstRow", "RfcMoveToLastRow"}

get_row(h, move, rc, row, rowType) ==
    LET call == Call(move, h, rc)
        cur  == current_row(h, row, rowType)
    IN  IF is_rc_err(rc) THEN [calls |-> <<call>>, res |-> Err(call.err)]
        ELSE [calls |-> <<call>> \o cur.calls, res |-> cur.res]

GetRowInputs == {i \in MoveFn \X RC \X BOOLEAN \X BOOLEAN :
    /\ is_rc_err(i[2]) => i[3]
    /\ ~i[3] => i[4]}

GetRow(v, move, rc, row, rowType) ==
    /\ views[v].st = "live" /\ views[v].kind = "table"
    /\ ViewOp("get_row", v, get_row(Container(v), move, rc, row, rowType))

\* a view goes out of scope (views have no Drop impl: no native call)
DropView(v) ==
    /\ views[v].st = "live"
    /\ views' = [views EXCEPT ![v] = NoView]
    /\ Done("drop_view", v, Ok(NoVal), <<>>, {})
    /\ UNCHANGED <<conn, funcs, acq, rel, nativeLive>>

Next ==
    \/ \E ret \in {Null, ConnHandle} : Open(ret)
    \/ \E rc \in RC : Ping(rc)
    \/ \E rc \in RC : DropConnection(rc)
    \/ \E i \in GetFunctionInputs : GetFunction(i[1], i[2], i[3], i[4])
    \/ \E f \in FuncIds, rc \in RC : Invoke(f, rc)
    \/ \E f \in FuncIds, rcF, rcD \in RC : DropFunction(f, rcF, rcD)
    \/ \E v \in ViewIds, f \in FuncIds, i \in GetParameterInputs :
          GetParameter(v, f, i[1], i[2], i[3])
    \/ \E v \in ViewIds, value \in Ints, rc \in RC : SetInt(v, value, rc)
    \/ \E v \in ViewIds, i \in ValueInputs(Ints) : GetInt(v, i[1], i[2])
    \/ \E v \in ViewIds, i \in NamedInputs(Strs) : SetString(v, i[1], i[2], i[3])
    \/ \E v \in ViewIds, i \in GetStringInputs : GetString(v, i[1], i[2], i[3], i[4], i[5])
    \/ \E v \in ViewIds, i \in AsViewInputs : AsView(i[1], v, i[2], i[3])
    \/ \E v \in ViewIds, value \in Ints, i \in NamedInputs(ParamNames) :
          StructSetInt(v, i[1], value, i[2], i[3])
    \/ \E v \in ViewIds, i \in StructGetIntInputs :
          StructGetInt(v, i[1][1], i[1][2], i[1][3], i[2])
    \/ \E v \in ViewIds, i \in ValueInputs(RowIndexes) : RowCount(v, i[1], i[2])
    \/ \E v \in ViewIds, rc \in RC : ClearRows(v, rc)
    \/ \E v \in ViewIds, i \in GetRowInputs : GetRow(v, i[1], i[2], i[3], i[4])
    \/ \E v \in ViewIds : DropView(v)

Spec == Init /\ [][Next]_vars

\* the shortcuts next to the two-step path they stand for
NextViews ==
    \/ \E ret \in {Null, ConnHandle} : Open(ret)
    \/ \E i \in GetFunctionInputs : GetFunction(i[1], i[2], i[3], i[4])
    \/ \E v \in ViewIds, f \in FuncIds, i \in GetParameterInputs :
          GetParameter(v, f, i[1], i[2], i[3])
    \/ \E v \in ViewIds, i \in AsViewInputs : AsView(i[1], v, i[2], i[3])
    \/ \E v \in ViewIds, f \in FuncIds, i \in GetViewInputs :
          GetView(i[1], v, f, i[2][1], i[2][2], i[2][3], i[3], i[4])
    \/ \E v \in ViewIds : DropView(v)

SpecViews == Init /\ [][NextViews]_vars

\* ------------------------------------------------------------------------
\* Threads: what the Send impls let safe callers do
\* ------------------------------------------------------------------------
\* unsafe impl Send for RfcFunction<'_>: a Function, with the &'conn handle
\* it holds, may be moved to another thread
RfcFunction_Send == TRUE

Idle(t) == inNative[t] = NotInNative

\* a Function is moved into another (scoped) thread
MoveFunction(f, t) ==
    /\ RfcFunction_Send
    /\ funcs[f].st = "live"
    /\ ~FuncBorrowed(f)
    /\ t # funcThread[f]
    /\ Idle(funcThread[f])
    /\ funcThread' = [funcThread EXCEPT ![f] = t]
    /\ UNCHANGED <<conn, funcs, views, acq, rel, nativeLive, stale, last, inNative, pool,
                   conv, builder, data>>

\* a thread enters / returns from a native call that takes the connection
\* handle
Enter(t, fn, h, obj) ==
    /\ Idle(t)
    /\ inNative' = [inNative EXCEPT ![t] = [fn |-> fn, h |-> h, obj |-> obj]]
    /\ UNCHANGED <<conn, funcs, views, acq, rel, nativeLive, stale, last, funcThread, pool,
                   conv, builder, data>>

Return(t, op, obj, res, calls) ==
    /\ inNative' = [inNative EXCEPT ![t] = NotInNative]
    /\ last' = [op |-> op, obj |-> obj, res |-> res, calls |-> calls, warns |-> {}]
    /\ stale' = stale \cup StaleCalls(calls, nativeLive)
    /\ UNCHANGED <<conn, funcs, views, acq, rel, nativeLive, funcThread, pool,
                   conv, builder, data>>

\* RfcConnection::ping, by the thread that owns the Connection
PingEnter ==
    /\ conn.st = "live"
    /\ Enter(MainThread, "RfcPing", conn.handle, 0)

PingReturn(rc) ==
    /\ inNative[MainThread].fn = "RfcPing"
    /\ LET call == Call("RfcPing", inNative[MainThread].h, rc)
       IN  Return(MainThread, "ping", 0, check_rc_ok(call), <<call>>)

\* RfcFunction::invoke, by the thread that owns the Function
InvokeEnter(f) ==
    /\ funcs[f].st = "live"
    /\ Enter(funcThread[f], "RfcInvoke", conn.handle, f)

InvokeReturn(f, rc) ==
    /\ inNative[funcThread[f]].fn = "RfcInvoke"
    /\ inNative[funcThread[f]].obj = f
    /\ LET call == Call2("RfcInvoke", inNative[funcThread[f]].h, funcs[f].func, rc)
       IN  Return(funcThread[f], "invoke", f, check_rc_ok(call), <<call>>)

NextThreads ==
    \/ \E ret \in {Null, ConnHandle} : Idle(MainThread) /\ Open(ret)
    \/ \E i \in GetFunctionInputs :
          Idle(MainThread) /\ GetFunction(i[1], i[2], i[3], i[4])
    \/ \E f \in FuncIds, t \in Threads : MoveFunction(f, t)
    \/ PingEnter
    \/ \E rc \in RC : PingReturn(rc)
    \/ \E f \in FuncIds : InvokeEnter(f)
    \/ \E f \in FuncIds, rc \in RC : InvokeReturn(f, rc)
    \/ \E f \in FuncIds, rcF, rcD \in RC :
          Idle(funcThread[f]) /\ DropFunction(f, rcF, rcD)
    \/ \E rc \in RC : Idle(MainThread) /\ DropConnection(rc)

SpecThreads == Init /\ [][NextThreads]_vars

\* ------------------------------------------------------------------------
\* Pool: impl managed::Manager for Manager
\* ------------------------------------------------------------------------
\* what SyncWrapper::interact reports to recycle: the closure ran to its
\* end, or the blocking task was aborted / panicked before it ran
InteractOutcomes == {"ran", "aborted", "panic"}

RecycleError(kind, message) == [code |-> kind, group |-> "RecycleError", message |-> message]

recycle_IgnorePing(poisoned, out, h, rc) ==
    IF poisoned
    THEN [calls |-> <<>>, res |-> Err(RecycleError("StaticMessage", "Mutex is poisoned"))]
    ELSE IF out # "ran"
    THEN [calls |-> <<>>, res |-> Err(RecycleError("Message", out))]
    ELSE [calls |-> <<Call("RfcPing", h, rc)>>, res |-> Ok(NoVal)]

\* Manager::recycle: the calls made and the result, for the mutex's poison
\* flag, the outcome of interact and the status RfcPing returns
recycle(poisoned, out, h, rc) ==
    IF poisoned
    THEN [calls |-> <<>>, res |-> Err(RecycleError("StaticMessage", "Mutex is poisoned"))]
    ELSE IF out # "ran"
    THEN [calls |-> <<>>, res |-> Err(RecycleError("Message", out))]
    ELSE LET call == Call("RfcPing", h, rc)
         IN  [calls |-> <<call>>, res |-> check_rc_ok(call)]

RecycleInputs ==
    {i \in InteractOutcomes \X RC : i[1] # "ran" => i[2] = RFC_OK}

PoolDone(op, s, res, calls) ==
    /\ last' = [op |-> op, obj |-> s, res |-> res, calls |-> calls, warns |-> {}]
    /\ UNCHANGED <<conn, funcs, views, acq, rel, nativeLive, stale, funcThread, inNative,
                   conv, builder, data>>

\* Manager::create: builder.build() inside a new SyncWrapper; the new
\* object goes to the caller that asked for it
PoolCreate(s, ret) ==
    /\ pool[s].st = "absent"
    /\ pool[s].gen < MaxGens
    /\ LET res == RfcConnection_new(ret)
       IN  /\ pool' = IF res.ok
                      THEN [pool EXCEPT ![s].st = "inuse", ![s].gen = @ + 1,
                                        ![s].handle = res.val, ![s].poisoned = FALSE]
                      ELSE pool
           /\ PoolDone("create", s, res, <<HandleCall("RfcOpenConnection", Null, ret)>>)

\* the lock of the wrapper's mutex is free
MutexFree(s) == pool[s].inside = {}

\* SyncWrapper::interact by a task of the caller holding the object: the
\* closure runs with the mutex locked
InteractEnter(s, k) ==
    /\ pool[s].st = "inuse"
    /\ ~pool[s].poisoned
    /\ MutexFree(s)
    /\ pool' = [pool EXCEPT ![s].inside = @ \cup {k}]
    /\ PoolDone("interact", s, Ok(NoVal), <<>>)

\* the closure ends; a panic inside it poisons the mutex
InteractExit(s, k, panicked) ==
    /\ k \in pool[s].inside
    /\ pool' = [pool EXCEPT ![s].inside = @ \ {k}, ![s].poisoned = @ \/ panicked]
    /\ PoolDone("interact", s,
                IF panicked THEN Err(RecycleError("Panic", "")) ELSE Ok(NoVal), <<>>)

\* the caller drops the object: it goes back to the pool
PoolReturn(s) ==
    /\ pool[s].st = "inuse"
    /\ MutexFree(s)
    /\ pool' = [pool EXCEPT ![s].st = "idle"]
    /\ PoolDone("return", s, Ok(NoVal), <<>>)

\* a later caller asks for an object: the pool runs Manager::recycle on an
\* idle one, hands it out on Ok and discards it on Err
PoolRecycle(s, out, rc) ==
    /\ pool[s].st = "idle"
    /\ LET r == recycle(pool[s].poisoned, out, pool[s].handle, rc)
       IN  /\ pool' = IF r.res.ok
                      THEN [pool EXCEPT ![s].st = "inuse"]
                      ELSE [pool EXCEPT ![s].st = "absent", ![s].handle = Null,
                                        ![s].failed = @ \cup {pool[s].gen}]
           /\ PoolDone("recycle", s, r.res, r.calls)

NextPool ==
    \/ \E s \in Slots, ret \in {Null, ConnHandle} : PoolCreate(s, ret)
    \/ \E s \in Slots, k \in Tasks : InteractEnter(s, k)
    \/ \E s \in Slots, k \in Tasks, panicked \in BOOLEAN : InteractExit(s, k, panicked)
    \/ \E s \in Slots : PoolReturn(s)
    \/ \E s \in Slots, i \in RecycleInputs : PoolRecycle(s, i[1], i[2])

SpecPool == Init /\ [][NextPool]_vars

\* ------------------------------------------------------------------------
\* uc: text conversions, unit by unit
\* ------------------------------------------------------------------------
\* A Rust str is the sequence of its code points; its bytes are Utf8(x).
\* Code points of 1, 2, 3 and 4 UTF-8 bytes, and U+0000.
Chars == {0, 65, 233, 8364, 128512}
Strings == UNION {[1..n -> Chars] : n \in 0..MaxStrLen}

Repeat(c, n) == [i \in 1..n |-> c]

IsSurrogate(c) == c >= 55296 /\ c <= 57343

\* the UTF-8 bytes of one code point (a surrogate is written the same way)
Utf8Enc(c) ==
    IF c < 128 THEN <<c>>
    ELSE IF c < 2048 THEN <<192 + (c \div 64), 128 + (c % 64)>>
    ELSE IF c < 65536
    THEN <<224 + (c \div 4096), 128 + ((c \div 64) % 64), 128 + (c % 64)>>
    ELSE <<240 + (c \div 262144), 128 + ((c \div 4096) % 64),
           128 + ((c \div 64) % 64), 128 + (c % 64)>>

\* the SAP_UC (UTF-16) units of one code point
Utf16Enc(c) ==
    IF c < 65536 THEN <<c>>
    ELSE <<55296 + ((c - 65536) \div 1024), 56320 + ((c - 65536) % 1024)>>

\* the bytes of a text: the bytes of its code points, in order
RECURSIVE Utf8(_)
Utf8(x) ==
    IF x = <<>> THEN <<>>
    ELSE IF Len(x) = 1 THEN Utf8Enc(x[1])
    ELSE Utf8(SubSeq(x, 1, Len(x) \div 2)) \o Utf8(SubSeq(x, Len(x) \div 2 + 1, Len(x)))

\* the units of a text: the units of its code points, in order
RECURSIVE Units(_)
Units(x) ==
    IF x = <<>> THEN <<>>
    ELSE IF Len(x) = 1 THEN Utf16Enc(x[1])
    ELSE Units(SubSeq(x, 1, Len(x) \div 2)) \o Units(SubSeq(x, Len(x) \div 2 + 1, Len(x)))

\* the code points of a unit sequence; an unpaired surrogate stays as it is
RECURSIVE CodePoints(_)
CodePoints(u) ==
    IF u = <<>> THEN <<>>
    ELSE IF /\ Len(u) >= 2
            /\ u[1] >= 55296 /\ u[1] <= 56319
            /\ u[2] >= 56320 /\ u[2] <= 57343
    THEN <<65536 + (u[1] - 55296) * 1024 + (u[2] - 56320)>> \o CodePoints(Tail(Tail(u)))
    ELSE <<u[1]>> \o CodePoints(Tail(u))

IsCont(b) == b >= 128 /\ b <= 191

\* String::from_utf8: whether the bytes are legal UTF-8
RECURSIVE ValidUtf8(_)
ValidUtf8(b) ==
    IF b = <<>> THEN TRUE
    ELSE IF b[1] < 128 THEN ValidUtf8(Tail(b))
    ELSE IF b[1] >= 194 /\ b[1] <= 223
    THEN Len(b) >= 2 /\ IsCont(b[2]) /\ ValidUtf8(SubSeq(b, 3, Len(b)))
    ELSE IF b[1] >= 224 /\ b[1] <= 239
    THEN /\ Len(b) >= 3 /\ IsCont(b[2]) /\ IsCont(b[3])
         /\ LET c == (b[1] - 224) * 4096 + (b[2] - 128) * 64 + (b[3] - 128)
            IN  c >= 2048 /\ ~IsSurrogate(c)
         /\ ValidUtf8(SubSeq(b, 4, Len(b)))
    ELSE IF b[1] >= 240 /\ b[1] <= 244
    THEN /\ Len(b) >= 4 /\ IsCont(b[2]) /\ IsCont(b[3]) /\ IsCont(b[4])
         /\ LET c == (b[1] - 240) * 262144 + (b[2] - 128) * 4096
                     + (b[3] - 128) * 64 + (b[4] - 128)
            IN  c >= 65536 /\ c <= 1114111
         /\ ValidUtf8(SubSeq(b, 5, Len(b)))
    ELSE FALSE

RFC_CONVERSION_FAILURE == "RFC_CONVERSION_FAILURE"

\* whether the library's converters need room for a terminating zero in the
\* output buffer (1) or not (0)
Terminators == {0, 1}

Max(a, b) == IF a >= b THEN a ELSE b

\* RfcUTF8ToSAPUC as the binding calls it: input text, capacity of the
\* output buffer in units; on RFC_BUFFER_TOO_SMALL size is the needed one
RfcUTF8ToSAPUC(x, size, term) ==
    LET u == Units(x)
    IN  IF Len(u) + term > size
        THEN [rc |-> RFC_BUFFER_TOO_SMALL, size |-> Len(u) + term, len |-> 0, out |-> <<>>]
        ELSE [rc |-> RFC_OK, size |-> size, len |-> Len(u), out |-> u]

\* RfcSAPUCToUTF8 as the binding calls it: the units, the capacity of the
\* output buffer in bytes; a strict library rejects an unpaired surrogate,
\* a lenient one writes it out as three bytes
RfcSAPUCToUTF8(u, size, term, strict) ==
    LET cps == CodePoints(u)
        b   == Utf8(cps)
    IN  IF strict /\ \E i \in 1..Len(cps) : IsSurrogate(cps[i])
        THEN [rc |-> RFC_CONVERSION_FAILURE, size |-> size, len |-> 0, out |-> <<>>]
        ELSE IF Len(b) + term > size
        THEN [rc |-> RFC_BUFFER_TOO_SMALL, size |-> Len(b) + term, len |-> 0, out |-> <<>>]
        ELSE [rc |-> RFC_OK, size |-> size, len |-> Len(b), out |-> b]

\* uc::from_str_to_buffer / from_str_to_slice: one conversion into a
\* caller-supplied buffer of the given size
from_str_to_buffer(value, size, term) ==
    LET r == RfcUTF8ToSAPUC(value, size, term)
    IN  IF is_rc_err(r.rc)
        THEN [res |-> Err(NativeErr("RfcUTF8ToSAPUC", r.rc)), buf |-> Repeat(0, size)]
        ELSE [res |-> Ok(r.len),
              buf |-> [i \in 1..size |-> IF i <= r.len THEN r.out[i] ELSE 0]]

from_str_to_slice(value, dest, term) == from_str_to_buffer(value, Len(dest), term)

\* RFC_ABAP_NAME: SAP_UC[30 + 1]
RFC_ABAP_NAME_LEN == 31

\* uc::from_str_to_abap_name
from_str_to_abap_name(value, term) ==
    LET r == from_str_to_slice(value, Repeat(0, RFC_ABAP_NAME_LEN), term)
    IN  IF r.res.ok THEN Ok(r.buf) ELSE r.res

\* uc::from_str with the converter spelled out: the units of value, after
\* at most one retry with the capacity the library asked for
uc_from_str(value, term) ==
    LET cap1 == Len(Utf8(value)) + 1
        r1   == RfcUTF8ToSAPUC(value, cap1, term)
        cap2 == Max(cap1, r1.size + 1)
        r2   == RfcUTF8ToSAPUC(value, cap2, term)
    IN  IF r1.rc = RFC_BUFFER_TOO_SMALL
        THEN [retried |-> TRUE,
              res |-> IF is_rc_err(r2.rc) THEN Err(NativeErr("RfcUTF8ToSAPUC", r2.rc))
                      ELSE Ok(SubSeq(r2.out, 1, r2.len))]
        ELSE [retried |-> FALSE,
              res |-> IF is_rc_err(r1.rc) THEN Err(NativeErr("RfcUTF8ToSAPUC", r1.rc))
                      ELSE Ok(SubSeq(r1.out, 1, r1.len))]

\* RFC_ERROR_INFO.message: SAP_UC[512]
MESSAGE_LEN == 512

\* a thread that panicked returns nothing
Panicked == [panic |-> TRUE, code |-> "", group |-> "", message |-> <<>>]

\* RfcErrorInfo::custom with the converter spelled out: the record, or a
\* panic when expect meets the Err of from_str_to_slice
custom(message, term) ==
    LET r == from_str_to_slice(message, Repeat(0, MESSAGE_LEN), term)
    IN  IF r.res.ok
        THEN [panic |-> FALSE, code |-> RFC_UNKNOWN_ERROR,
              group |-> EXTERNAL_APPLICATION_FAILURE, message |-> r.buf]
        ELSE Panicked

\* FromUtf8Error::to_string: "invalid utf-8 sequence of 1 bytes from index
\* N", 47 ASCII characters for a one-digit index
FromUtf8Error_to_string == Repeat(101, 47)

uc_to_string_Unwrap(value, size, term, strict) ==
    LET cap1 == size + 1
        r1   == RfcSAPUCToUTF8(SubSeq(value, 1, size), cap1, term, strict)
        cap2 == Max(cap1, r1.size + 1)
        r2   == RfcSAPUCToUTF8(SubSeq(value, 1, size), cap2, term, strict)
        r    == IF r1.rc = RFC_BUFFER_TOO_SMALL THEN r2 ELSE r1
        buf  == SubSeq(r.out, 1, r.len)
    IN  IF is_rc_err(r.rc)
        THEN [retried |-> r1.rc = RFC_BUFFER_TOO_SMALL, panic |-> FALSE,
              res |-> Err(NativeErr("RfcSAPUCToUTF8", r.rc))]
        ELSE [retried |-> r1.rc = RFC_BUFFER_TOO_SMALL, panic |-> ~ValidUtf8(buf),
              res |-> IF ValidUtf8(buf) THEN Ok(buf) ELSE Err(Panicked)]

\* uc::to_string with the converter spelled out: the first size units of
\* value converted with at most one retry, then String::from_utf8 and the
\* From<FromUtf8Error> conversion of its error
uc_to_string(value, size, term, strict) ==
    LET cap1 == size + 1
        r1   == RfcSAPUCToUTF8(SubSeq(value, 1, size), cap1, term, strict)
        cap2 == Max(cap1, r1.size + 1)
        r2   == RfcSAPUCToUTF8(SubSeq(value, 1, size), cap2, term, strict)
        r    == IF r1.rc = RFC_BUFFER_TOO_SMALL THEN r2 ELSE r1
        buf  == SubSeq(r.out, 1, r.len)
        e    == custom(FromUtf8Error_to_string, term)
    IN  IF is_rc_err(r.rc)
        THEN [retried |-> r1.rc = RFC_BUFFER_TOO_SMALL, panic |-> FALSE,
              res |-> Err(NativeErr("RfcSAPUCToUTF8", r.rc))]
        ELSE IF ValidUtf8(buf)
        THEN [retried |-> r1.rc = RFC_BUFFER_TOO_SMALL, panic |-> FALSE, res |-> Ok(buf)]
        ELSE [retried |-> r1.rc = RFC_BUFFER_TOO_SMALL, panic |-> e.panic, res |-> Err(e)]

\* value.iter().position(|&c| c == 0).unwrap_or_else(|| value.len()): the
\* number of units ahead of the first zero unit, or the length when there
\* is none
ZeroPosition_Last(value) ==
    IF \E i \in 1..Len(value) : value[i] = 0
    THEN (CHOOSE i \in 1..Len(value) :
            value[i] = 0 /\ \A j \in (i + 1)..Len(value) : value[j] # 0) - 1
    ELSE Len(value)

ZeroPosition(value) ==
    IF \E i \in 1..Len(value) : value[i] = 0
    THEN (CHOOSE i \in 1..Len(value) :
            value[i] = 0 /\ \A j \in 1..(i - 1) : value[j] # 0) - 1
    ELSE Len(value)

to_string_truncate_Whole(value, term, strict) ==
    uc_to_string(value, Len(value), term, strict)

\* uc::to_string_truncate
to_string_truncate(value, term, strict) ==
    uc_to_string(value, ZeroPosition(value), term, strict)

\* str_from_sap_uc of the oldest variant: the whole slice is converted
str_from_sap_uc(value, term, strict) ==
    uc_to_string(value, Len(value), term, strict)

\* unit sequences a caller can hand to the decoders: letters, a zero, a
\* surrogate pair and its two halves on their own
UnitChars == {0, 65, 8364, 55357, 56832}
UnitSeqs == UNION {[1..n -> UnitChars] : n \in 0..MaxStrLen}

\* names around the width of the name field, and messages around the width
\* of the message field
NameInputs == {Repeat(65, n) : n \in {0, 1, RFC_ABAP_NAME_LEN - 1, RFC_ABAP_NAME_LEN,
                                       RFC_ABAP_NAME_LEN + 1}}
MessageInputs == {Repeat(65, n) : n \in {0, 1, 47, MESSAGE_LEN - 1, MESSAGE_LEN,
                                          MESSAGE_LEN + 1}}

\* Each conversion below is applied once to an input drawn from its set.
\* encode a text, then decode the result
RoundTrip(x, term, strict) ==
    /\ conv = NoConv
    /\ LET enc == uc_from_str(x, term)
       IN  conv' = [op |-> "roundtrip", x |-> x, term |-> term, enc |-> enc,
                    dec |-> to_string_truncate(enc.res.val, term, strict),
                    old |-> str_from_sap_uc(enc.res.val, term, strict)]
    /\ UNCHANGED <<coreVars, builder, data>>

\* encode a field name for a named access of a Structure or Table
AbapName(x, term) ==
    /\ conv = NoConv
    /\ conv' = [op |-> "abap_name", x |-> x, term |-> term,
                res |-> from_str_to_abap_name(x, term)]
    /\ UNCHANGED <<coreVars, builder, data>>

\* RfcErrorInfo::custom
Custom(x, term) ==
    /\ conv = NoConv
    /\ conv' = [op |-> "custom", x |-> x, term |-> term, res |-> custom(x, term)]
    /\ UNCHANGED <<coreVars, builder, data>>

\* decode a unit buffer, whole (as get_string does) and truncating
Decode(u, term, strict) ==
    /\ conv = NoConv
    /\ conv' = [op |-> "decode", x |-> u, term |-> term, strict |-> strict,
                whole |-> uc_to_string(u, Len(u), term, strict),
                trunc |-> to_string_truncate(u, term, strict)]
    /\ UNCHANGED <<coreVars, builder, data>>

NextUc ==
    \/ \E x \in Strings, term \in Terminators, strict \in BOOLEAN : RoundTrip(x, term, strict)
    \/ \E x \in NameInputs \cup Strings, term \in Terminators : AbapName(x, term)
    \/ \E x \in MessageInputs, term \in Terminators : Custom(x, term)
    \/ \E u \in UnitSeqs, term \in Terminators, strict \in BOOLEAN : Decode(u, term, strict)

SpecUc == Init /\ [][NextUc]_vars

\* ------------------------------------------------------------------------
\* uc::from_str against a converter that answers as it likes
\* ------------------------------------------------------------------------
MaxBytes == 2
MaxNeeded == 4

\* uc::from_str / str_to_sap_uc on a text of n bytes, with the capacities it
\* offers: r1 and r2 are the converter's answers (status, the buffer size
\* it wrote back, the result length it wrote) to the first call and to the
\* retry.  Returns the calls made and the length of the returned Vec.
from_str_retry_AnyError(n, r1, r2) ==
    LET cap1 == n + 1
        cap2 == Max(cap1, r1.size + 1)
        c1   == [cap |-> cap1, rc |-> r1.rc, size |-> r1.size, len |-> r1.len]
        c2   == [cap |-> cap2, rc |-> r2.rc, size |-> r2.size, len |-> r2.len]
    IN  IF is_rc_err(r1.rc)
        THEN [calls |-> <<c1, c2>>,
              res |-> IF is_rc_err(r2.rc) THEN Err(NativeErr("RfcUTF8ToSAPUC", r2.rc))
                      ELSE Ok(r2.len)]
        ELSE [calls |-> <<c1>>, res |-> Ok(r1.len)]

from_str_retry(n, r1, r2) ==
    LET cap1 == n + 1
        cap2 == Max(cap1, r1.size + 1)
        c1   == [cap |-> cap1, rc |-> r1.rc, size |-> r1.size, len |-> r1.len]
        c2   == [cap |-> cap2, rc |-> r2.rc, size |-> r2.size, len |-> r2.len]
    IN  IF r1.rc = RFC_BUFFER_TOO_SMALL
        THEN [calls |-> <<c1, c2>>,
              res |-> IF is_rc_err(r2.rc) THEN Err(NativeErr("RfcUTF8ToSAPUC", r2.rc))
                      ELSE Ok(r2.len)]
        ELSE IF is_rc_err(r1.rc)
        THEN [calls |-> <<c1>>, res |-> Err(NativeErr("RfcUTF8ToSAPUC", r1.rc))]
        ELSE [calls |-> <<c1>>, res |-> Ok(r1.len)]

\* what the converter can answer to a call that offers cap units: RFC_OK
\* with a result length within the buffer, RFC_BUFFER_TOO_SMALL with the
\* size it wants, or another failure
Answers(cap) ==
    [rc : {RFC_OK}, size : {cap}, len : 0..cap]
    \cup [rc : {RFC_BUFFER_TOO_SMALL}, size : 0..MaxNeeded, len : {0}]
    \cup [rc : {RFC_COMMUNICATION_FAILURE}, size : {cap}, len : {0}]

\* the answer to a retry that is not made
NoAnswer == [rc |-> RFC_OK, size |-> 0, len |-> 0]

Encode(n, r1, r2) ==
    /\ conv = NoConv
    /\ conv' = [op |-> "encode", n |-> n, out |-> from_str_retry(n, r1, r2)]
    /\ UNCHANGED <<coreVars, builder, data>>

SpecEncode ==
    Init /\ [][\E n \in 0..MaxBytes : \E r1 \in Answers(n + 1) :
                \E r2 \in IF r1.rc = RFC_BUFFER_TOO_SMALL
                           THEN Answers(Max(n + 1, r1.size + 1)) ELSE {NoAnswer} :
                    Encode(n, r1, r2)]_vars

\* ------------------------------------------------------------------------
\* Capability checks of RfcParameter: reads of the stored RFC_PARAMETER_DESC
\* ------------------------------------------------------------------------
\* RfcParameter::is_structure
is_structure(desc) == desc.type_ = "RFCTYPE_STRUCTURE"

\* RfcParameter::is_import
is_import(desc) ==
    desc.direction = "RFC_IMPORT" \/ desc.direction = "RFC_CHANGING"

\* RfcParameter::is_export
is_export(desc) ==
    desc.direction = "RFC_EXPORT" \/ desc.direction = "RFC_CHANGING"

\* RfcParameter::is_table
is_table_TypeOnly(desc) == desc.type_ = "RFCTYPE_TABLE"

is_table(desc) ==
    desc.direction = "RFC_TABLES" \/ desc.type_ = "RFCTYPE_TABLE"

\* RfcParameter::is_optional
is_optional(desc) == desc.optional = 1

\* the descriptors the library can write: type, direction, optional flag
ParamDescs ==
    [type_ : {"RFCTYPE_CHAR", "RFCTYPE_INT", "RFCTYPE_INT1", "RFCTYPE_INT2",
              "RFCTYPE_INT8", "RFCTYPE_NUM", "RFCTYPE_STRING", "RFCTYPE_XSTRING",
              "RFCTYPE_STRUCTURE", "RFCTYPE_TABLE", "RFCTYPE_DATE"},
     direction : {"RFC_IMPORT", "RFC_EXPORT", "RFC_CHANGING", "RFC_TABLES"},
     optional : 0..2]

\* all five checks on the descriptor of one parameter; none of them takes
\* the data container handle, so no native call appears
Capabilities(desc) ==
    /\ conv = NoConv
    /\ conv' = [op |-> "caps", desc |-> desc, calls |-> <<>>,
                is_structure |-> is_structure(desc), is_import |-> is_import(desc),
                is_export |-> is_export(desc), is_table |-> is_table(desc),
                is_optional |-> is_optional(desc)]
    /\ UNCHANGED <<coreVars, builder, data>>

SpecCaps == Init /\ [][\E desc \in ParamDescs : Capabilities(desc)]_vars

\* ------------------------------------------------------------------------
\* RfcConnectionBuilder and RfcConnection::for_dest
\* ------------------------------------------------------------------------
\* "dest", "user"
Dest == <<100, 101, 115, 116>>
User == <<117, 115, 101, 114>>
ParamKeys == {Dest, User}
\* "0", "TEST", "INVALID"
ParamTexts == {<<48>>, <<84, 69, 83, 84>>, <<73, 78, 86, 65, 76, 73, 68>>}
ParamInts == {0, 42}
\* a value of some T: ToString handed to set_param
ParamValues ==
    {[isInt |-> TRUE, n |-> i, s |-> <<>>] : i \in ParamInts}
    \cup {[isInt |-> FALSE, n |-> 0, s |-> t] : t \in ParamTexts}

\* i32::to_string for a value >= 0: its decimal digits
RECURSIVE IntToString(_)
IntToString(n) ==
    IF n < 10 THEN <<48 + n>> ELSE IntToString(n \div 10) \o <<48 + (n % 10)>>

\* value.to_string()
value_to_string(v) == IF v.isInt THEN IntToString(v.n) ELSE v.s

set_param_KeepFirst(params, key, value) ==
    [k \in DOMAIN params \cup {key} |->
        IF k \in DOMAIN params THEN params[k] ELSE value_to_string(value)]

\* RfcConnectionBuilder::set_param: HashMap::insert of the value's text
set_param(params, key, value) ==
    [k \in DOMAIN params \cup {key} |-> IF k = key THEN value_to_string(value) ELSE params[k]]

\* the orders in which a HashMap may yield its keys
Orders(keys) ==
    {o \in [1..Cardinality(keys) -> keys] :
        \A i, j \in 1..Cardinality(keys) : o[i] = o[j] => i = j}

\* RfcConnection::new on already encoded pairs: one RfcOpenConnection call
\* with all of them, and the result for the handle it returns
RfcConnection_open(pairs, ret) ==
    [called |-> TRUE, passed |-> pairs, res |-> RfcConnection_new(ret)]

\* RfcConnectionBuilder::build: every (key, value) of the map encoded, in
\* the order the map yields them, then RfcConnection::new
build(params, order, term, ret) ==
    LET enc == [i \in 1..Len(order) |->
                   <<uc_from_str(order[i], term).res, uc_from_str(params[order[i]], term).res>>]
    IN  IF \E i \in 1..Len(order) : ~enc[i][1].ok \/ ~enc[i][2].ok
        THEN LET i == CHOOSE j \in 1..Len(order) :
                        /\ ~enc[j][1].ok \/ ~enc[j][2].ok
                        /\ \A l \in 1..(j - 1) : enc[l][1].ok /\ enc[l][2].ok
             IN  [called |-> FALSE, passed |-> <<>>,
                  res |-> IF ~enc[i][1].ok THEN enc[i][1] ELSE enc[i][2]]
        ELSE RfcConnection_open([i \in 1..Len(order) |-> <<enc[i][1].val, enc[i][2].val>>], ret)

for_dest_User(name, term, ret) ==
    RfcConnection_open(<<<<uc_from_str(User, term).res.val, uc_from_str(name, term).res.val>>>>, ret)

\* RfcConnection::for_dest
for_dest(name, term, ret) ==
    LET k == uc_from_str(Dest, term).res
        v == uc_from_str(name, term).res
    IN  IF ~k.ok THEN [called |-> FALSE, passed |-> <<>>, res |-> k]
        ELSE IF ~v.ok THEN [called |-> FALSE, passed |-> <<>>, res |-> v]
        ELSE RfcConnection_open(<<<<k.val, v.val>>>>, ret)

SetParam(key, value) ==
    /\ builder.op \in {"init", "set"}
    /\ Len(builder.hist) < MaxSets
    /\ builder' = [builder EXCEPT !.op = "set",
                                  !.params = set_param(@, key, value),
                                  !.hist = Append(@, [key |-> key, value |-> value])]
    /\ UNCHANGED <<coreVars, conv, data>>

Build(order, term, ret) ==
    /\ builder.op \in {"init", "set"}
    /\ builder' = [builder EXCEPT !.op = "built", !.term = term, !.ret = ret,
                                  !.out = build(builder.params, order, term, ret)]
    /\ UNCHANGED <<coreVars, conv, data>>

ForDest(name, term, ret) ==
    /\ builder.op = "init"
    /\ builder' = [builder EXCEPT !.op = "for_dest", !.name = name, !.term = term,
                                  !.ret = ret, !.out = for_dest(name, term, ret)]
    /\ UNCHANGED <<coreVars, conv, data>>

NextBuilder ==
    \/ \E key \in ParamKeys, value \in ParamValues : SetParam(key, value)
    \/ \E order \in Orders(DOMAIN builder.params), term \in Terminators,
          ret \in {Null, ConnHandle} : Build(order, term, ret)
    \/ \E name \in ParamTexts, term \in Terminators, ret \in {Null, ConnHandle} :
          ForDest(name, term, ret)

SpecBuilder == Init /\ [][NextBuilder]_vars

\* ------------------------------------------------------------------------
\* String fields of a native data container
\* ------------------------------------------------------------------------
\* the implementations of set_string / get_string: RfcParameter of
\* parameter.rs, RfcDataContainer, RfcParameter of the rfc.rs files
StringVariants == {"parameter", "data_container", "rfc"}

\* what an uninitialised cell of a Vec's spare capacity may hold
Junk == {0, 65}

\* the length set_string hands to RfcSetString: the unit count of the encoded
\* buffer in parameter.rs and data_container.rs, the byte length of the host
\* text in the rfc.rs files
set_string_len(variant, value, uc_value) ==
    IF variant = "rfc" THEN Len(Utf8(value)) ELSE Len(uc_value)

\* set_string with the buffer spelled out: the encoded value sits in a Vec
\* of capacity value.len() + 1; behind its units comes the terminating zero
\* when the converter wrote one, then uninitialised cells.  RfcSetString
\* stores as many cells as it is told to.  crc is the status the converter
\* returns for a reason other than the size of the buffer.
set_string_units(variant, value, crc, term, junk, rc) ==
    LET enc  == IF is_rc_err(crc) THEN Err(NativeErr("RfcUTF8ToSAPUC", crc))
                ELSE uc_from_str(value, term).res
        n    == Len(enc.val)
        len  == set_string_len(variant, value, enc.val)
        cell == [i \in 1..len |-> IF i <= n THEN enc.val[i]
                                  ELSE IF i = n + 1 /\ term = 1 THEN 0 ELSE junk]
        call == Call("RfcSetString", Null, rc)
    IN  IF ~enc.ok THEN [res |-> enc, passed |-> 0, calls |-> <<>>, stored |-> <<>>]
        ELSE [res |-> check_rc_ok(call), passed |-> len, calls |-> <<call>>,
              stored |-> cell]

\* get_string with the buffer spelled out: RfcGetStringLength, then
\* RfcGetString into a buffer of the queried length + 1 (the library wants
\* room for the string and its terminating zero), then the decode of as
\* many units as the fetch reported
get_string_units_FetchAnyway(variant, stored, rcLen, rcGet, term, strict) ==
    LET lenCall == Call("RfcGetStringLength", Null, rcLen)
        getCall == Call("RfcGetString", Null, rcGet)
        dec     == uc_to_string(stored, Len(stored), term, strict)
    IN  [res |-> IF is_rc_err(rcGet) THEN Err(getCall.err) ELSE dec.res,
         queried |-> Len(stored), bufLen |-> Len(stored) + 1, reported |-> Len(stored),
         decoded |-> Len(stored), calls |-> <<lenCall, getCall>>]

get_string_units(variant, stored, rcLen, rcGet, term, strict) ==
    LET lenCall == Call("RfcGetStringLength", Null, rcLen)
        bufLen  == Len(stored) + 1
        rc      == IF bufLen < Len(stored) + 1 THEN RFC_BUFFER_TOO_SMALL ELSE rcGet
        getCall == Call("RfcGetString", Null, rc)
        dec     == IF variant = "rfc" THEN str_from_sap_uc(stored, term, strict)
                   ELSE uc_to_string(stored, Len(stored), term, strict)
    IN  IF is_rc_err(rcLen)
        THEN [res |-> Err(lenCall.err), queried |-> 0, bufLen |-> 0, reported |-> 0,
              decoded |-> 0, calls |-> <<lenCall>>]
        ELSE IF is_rc_err(rc)
        THEN [res |-> Err(getCall.err), queried |-> Len(stored), bufLen |-> bufLen,
              reported |-> 0, decoded |-> 0, calls |-> <<lenCall, getCall>>]
        ELSE [res |-> dec.res, queried |-> Len(stored), bufLen |-> bufLen,
              reported |-> Len(stored), decoded |-> Len(stored),
              calls |-> <<lenCall, getCall>>]

\* set_string on a fresh field
FieldSetString(variant, value, crc, term, junk, rc) ==
    /\ data.str.op = "init"
    /\ LET r == set_string_units(variant, value, crc, term, junk, rc)
       IN  data' = [data EXCEPT !.str =
                [@ EXCEPT !.op = "set_string", !.variant = variant, !.value = value,
                          !.setOk = r.res.ok, !.passed = r.passed, !.calls = r.calls,
                          !.encoded = ~is_rc_err(crc),
                          !.stored = IF r.res.ok THEN r.stored ELSE @,
                          !.res = IF r.res.ok THEN Ok(<<>>) ELSE r.res]]
    /\ UNCHANGED <<coreVars, conv, builder>>

\* get_string on the field, by the same implementation; it leaves the
\* field as it is, so one read of each written field shows every outcome
FieldGetString(rcLen, rcGet, term, strict) ==
    /\ data.str.op = "set_string"
    /\ LET r == get_string_units(data.str.variant, data.str.stored, rcLen, rcGet, term, strict)
       IN  data' = [data EXCEPT !.str =
                [@ EXCEPT !.op = "get_string", !.res = r.res, !.queried = r.queried,
                          !.bufLen = r.bufLen, !.reported = r.reported,
                          !.decoded = r.decoded, !.calls = r.calls]]
    /\ UNCHANGED <<coreVars, conv, builder>>

\* statuses of the length query and of the fetch (the second drawn only
\* when the first is RFC_OK)
FetchReplies == {r \in RC \X RC : is_rc_err(r[1]) => r[2] = RFC_OK}

\* the converter's status and the status of RfcSetString (drawn only when
\* the value was encoded)
SetReplies == {r \in {RFC_OK, RFC_COMMUNICATION_FAILURE} \X RC :
    is_rc_err(r[1]) => r[2] = RFC_OK}

NextString ==
    \/ \E variant \in StringVariants, value \in Strings, term \in Terminators,
          junk \in Junk, r \in SetReplies :
          FieldSetString(variant, value, r[1], term, junk, r[2])
    \/ \E r \in FetchReplies, term \in Terminators, strict \in BOOLEAN :
          FieldGetString(r[1], r[2], term, strict)

SpecString == Init /\ [][NextString]_vars

\* ------------------------------------------------------------------------
\* An echo module: SCP_STRING_ECHO (IMP -> EXP) and STFC_STRUCTURE
\* (IMPORTSTRUCT -> ECHOSTRUCT) as the smoke tests use them
\* ------------------------------------------------------------------------
MaxEchoLen == 1
EchoStrings == {x \in Strings : Len(x) <= MaxEchoLen}
EchoInts == {42, 3939, 112357}
\* the implementations the two smoke tests run on
EchoVariants == {"parameter", "rfc"}

\* the values an INT1 / INT2 / INT4 field can hold; RfcSetInt refuses
\* others
IntRange(field) ==
    CASE field = "RFCINT1" -> 0..255
      [] field = "RFCINT2" -> -32768..32767
      [] OTHER -> (-2147483647 - 1)..2147483647

\* RfcParameter::set_string on IMP, before the invoke
EchoSetString(variant, value, term, junk, rc) ==
    /\ ~data.echo.invoked /\ ~data.echo.strSet
    /\ data.echo.module \in {"", "SCP_STRING_ECHO"}
    /\ LET r == set_string_units(variant, value, RFC_OK, term, junk, rc)
       IN  data' = [data EXCEPT !.echo =
                [@ EXCEPT !.op = "set_string", !.module = "SCP_STRING_ECHO",
                          !.variant = variant,
                          !.value = IF r.res.ok THEN value ELSE @,
                          !.strSet = r.res.ok,
                          !.imp = IF r.res.ok THEN r.stored ELSE @,
                          !.res = IF r.res.ok THEN Ok(NoVal) ELSE r.res]]
    /\ UNCHANGED <<coreVars, conv, builder>>

\* RfcStructure::set_int on IMPORTSTRUCT, before the invoke
EchoSetInt(field, value, e, rc) ==
    /\ ~data.echo.invoked
    /\ data.echo.module \in {"", "STFC_STRUCTURE"}
    /\ LET enc  == from_str(field, e)
           nrc  == IF value \in IntRange(field) THEN rc ELSE RFC_CONVERSION_FAILURE
           call == Call("RfcSetInt", Null, nrc)
           res  == IF ~enc.res.ok THEN Err(enc.res.err) ELSE check_rc_ok(call)
       IN  data' = [data EXCEPT !.echo =
                [@ EXCEPT !.op = "set_int", !.module = "STFC_STRUCTURE",
                          !.field = field, !.res = res,
                          !.wrote = IF res.ok THEN @ \cup {field} ELSE @,
                          !.written = IF res.ok THEN [@ EXCEPT ![field] = value] ELSE @,
                          !.impInts = IF res.ok THEN [@ EXCEPT ![field] = value] ELSE @]]
    /\ UNCHANGED <<coreVars, conv, builder>>

\* RfcFunction::invoke on the echo module: on RFC_OK the library has filled
\* the export containers with what the import containers held
EchoInvoke(rc) ==
    /\ ~data.echo.invoked /\ data.echo.module # ""
    /\ LET call == Call("RfcInvoke", Null, rc)
           res  == check_rc_ok(call)
       IN  data' = [data EXCEPT !.echo =
                [@ EXCEPT !.op = "invoke", !.res = res, !.invoked = res.ok,
                          !.exp = IF res.ok THEN data.echo.imp ELSE @,
                          !.expInts = IF res.ok THEN data.echo.impInts ELSE @]]
    /\ UNCHANGED <<coreVars, conv, builder>>

\* RfcParameter::get_string on EXP, after the invoke
EchoGetString(rcLen, rcGet, term, strict) ==
    /\ data.echo.invoked /\ data.echo.module = "SCP_STRING_ECHO"
    /\ LET r == get_string_units(data.echo.variant, data.echo.exp, rcLen, rcGet, term, strict)
       IN  data' = [data EXCEPT !.echo = [@ EXCEPT !.op = "get_string", !.res = r.res]]
    /\ UNCHANGED <<coreVars, conv, builder>>

\* RfcStructure::get_int on ECHOSTRUCT, after the invoke
EchoGetInt(field, e, rc) ==
    /\ data.echo.invoked /\ data.echo.module = "STFC_STRUCTURE"
    /\ LET enc  == from_str(field, e)
           call == Call("RfcGetInt", Null, rc)
           res  == IF ~enc.res.ok THEN Err(enc.res.err)
                   ELSE IF is_rc_err(rc) THEN Err(call.err)
                   ELSE Ok(data.echo.expInts[field])
       IN  data' = [data EXCEPT !.echo =
                [@ EXCEPT !.op = "get_int", !.field = field, !.res = res]]
    /\ UNCHANGED <<coreVars, conv, builder>>

\* a field name with the converter's replies and the status of the call
\* (drawn only when the name was encoded)
FieldInputs == {i \in IntFields \X ConvReplies \X RC : ~ConvOk(i[2]) => i[3] = RFC_OK}

NextEcho ==
    \/ \E variant \in EchoVariants, value \in EchoStrings, term \in Terminators,
          junk \in Junk, rc \in RC : EchoSetString(variant, value, term, junk, rc)
    \/ \E i \in FieldInputs, value \in EchoInts : EchoSetInt(i[1], value, i[2], i[3])
    \/ \E rc \in RC : EchoInvoke(rc)
    \/ \E r \in FetchReplies, term \in Terminators, strict \in BOOLEAN :
          EchoGetString(r[1], r[2], term, strict)
    \/ \E i \in FieldInputs : EchoGetInt(i[1], i[2], i[3])

SpecEcho == Init /\ [][NextEcho]_vars

\* ------------------------------------------------------------------------
\* Rows of a table
\* ------------------------------------------------------------------------
MaxRows == 3
MaxAdded == 4
RowHandle == 41
RFC_TABLE_MOVE_EOF == "RFC_TABLE_MOVE_EOF"

\* the library's table: its rows (each with an identity), their number and
\* the position of its cursor
Native(t) == [rows |-> t.rows, cur |-> t.cur, ids |-> t.ids]

\* the identity of a row the library creates
NewRow(t) == CHOOSE i \in 1..(MaxRows + 1) :
    /\ \A k \in 1..Len(t.ids) : t.ids[k] # i
    /\ \A j \in 1..(i - 1) : \E k \in 1..Len(t.ids) : t.ids[k] = j

\* RfcMoveTo: fails on an index that is not a row (RfcMoveToFirstRow and
\* RfcMoveToLastRow are the moves to 0 and to the last index)
RfcMoveTo(t, index, rc) ==
    LET nrc == IF index \notin 0..(t.rows - 1) THEN RFC_TABLE_MOVE_EOF ELSE rc
    IN  [call |-> Call("RfcMoveTo", Null, nrc),
         t    |-> IF is_rc_err(nrc) THEN t ELSE [t EXCEPT !.cur = index]]

\* RfcAppendNewRow / RfcInsertNewRow: a null handle means no row was added;
\* the new row goes to the end / to the position of the cursor, and the
\* cursor is on it afterwards
RfcAppendNewRow(t, ret) ==
    [call |-> HandleCall("RfcAppendNewRow", Null, ret),
     t    |-> IF ret = Null THEN t
              ELSE [rows |-> t.rows + 1, cur |-> t.rows,
                    ids |-> Append(t.ids, NewRow(t))]]

RfcInsertNewRow(t, ret) ==
    [call |-> HandleCall("RfcInsertNewRow", Null, ret),
     t    |-> IF ret = Null THEN t
              ELSE [t EXCEPT !.rows = @ + 1,
                             !.ids = SubSeq(@, 1, t.cur) \o <<NewRow(t)>>
                                     \o SubSeq(@, t.cur + 1, Len(@))]]

\* RfcDeleteCurrentRow: removes the row under the cursor
RfcDeleteCurrentRow(t, rc) ==
    [call |-> Call("RfcDeleteCurrentRow", Null, rc),
     t    |-> IF is_rc_err(rc) \/ t.rows = 0 THEN t
              ELSE [rows |-> t.rows - 1,
                    cur  |-> IF t.cur >= t.rows - 1 THEN Max(t.rows - 2, 0) ELSE t.cur,
                    ids  |-> SubSeq(t.ids, 1, t.cur) \o SubSeq(t.ids, t.cur + 2, t.rows)]]

\* the row under the cursor (0 when there is none)
CurrentRow(t) == IF t.cur + 1 \in 1..Len(t.ids) THEN t.ids[t.cur + 1] ELSE 0

\* RfcTable::row_count
row_count(t, rc) ==
    LET call == Call("RfcGetRowCount", Null, rc)
    IN  [res |-> IF is_rc_err(rc) THEN Err(call.err) ELSE Ok(t.rows), t |-> t,
         calls |-> <<call>>, row |-> 0]

\* RfcTable::append_row
append_row_IgnoreNull(t, ret) ==
    [res |-> Ok(ret), t |-> RfcAppendNewRow(t, ret).t,
     calls |-> <<RfcAppendNewRow(t, ret).call>>, row |-> 0]

append_row(t, ret) ==
    LET n == RfcAppendNewRow(t, ret)
    IN  [res |-> IF ret = Null THEN Err(n.call.err) ELSE Ok(ret), t |-> n.t,
         calls |-> <<n.call>>, row |-> IF ret = Null THEN 0 ELSE CurrentRow(n.t)]

\* RfcTable::get_row / get_first_row / get_last_row on the library's table:
\* the move, then current_row, which hands out the row under the cursor
table_get_row(t, move, index, rc, row, rowType) ==
    LET target == CASE move = "RfcMoveTo" -> index
                    [] move = "RfcMoveToFirstRow" -> 0
                    [] OTHER -> t.rows - 1
        m == RfcMoveTo(t, target, rc)
        r == get_row(Null, move, m.call.rc, row, rowType)
    IN  [res |-> r.res, t |-> m.t, calls |-> r.calls,
         row |-> IF r.res.ok THEN CurrentRow(m.t) ELSE 0]

\* RfcTable::insert_row: RfcMoveTo(index), then RfcInsertNewRow
insert_row(t, index, rc, ret) ==
    LET m == RfcMoveTo(t, index, rc)
        n == RfcInsertNewRow(m.t, ret)
    IN  IF is_rc_err(m.call.rc)
        THEN [res |-> Err(m.call.err), t |-> m.t, calls |-> <<m.call>>, row |-> 0]
        ELSE [res |-> IF ret = Null THEN Err(n.call.err) ELSE Ok(ret), t |-> n.t,
              calls |-> <<m.call, n.call>>,
              row |-> IF ret = Null THEN 0 ELSE CurrentRow(n.t)]

\* RfcTable::delete_row: RfcMoveTo(index), then RfcDeleteCurrentRow
delete_row_IgnoreMove(t, index, rcMove, rcDel) ==
    LET m == RfcMoveTo(t, index, rcMove)
        n == RfcDeleteCurrentRow(m.t, rcDel)
    IN  [res |-> check_rc_ok(n.call), t |-> n.t, calls |-> <<m.call, n.call>>,
         row |-> IF is_rc_err(rcDel) THEN 0 ELSE CurrentRow(m.t)]

delete_row(t, index, rcMove, rcDel) ==
    LET m == RfcMoveTo(t, index, rcMove)
        n == RfcDeleteCurrentRow(m.t, rcDel)
    IN  IF is_rc_err(m.call.rc)
        THEN [res |-> Err(m.call.err), t |-> m.t, calls |-> <<m.call>>, row |-> 0]
        ELSE [res |-> check_rc_ok(n.call), t |-> n.t, calls |-> <<m.call, n.call>>,
              row |-> IF is_rc_err(rcDel) THEN 0 ELSE CurrentRow(m.t)]

\* RfcTable::clear_rows
clear_rows(t, rc) ==
    LET call == Call("RfcDeleteAllRows", Null, rc)
    IN  [res |-> check_rc_ok(call), calls |-> <<call>>, row |-> 0,
         t   |-> IF is_rc_err(rc) THEN t ELSE [rows |-> 0, cur |-> 0, ids |-> <<>>]]

\* one operation on the table: the library's state after it, its result,
\* its native calls, the row it handed out or removed, and the rows it
\* reported added / deleted
TableDone(op, index, r, add, del, clear) ==
    /\ data' = [data EXCEPT !.tab =
            [op |-> op, index |-> index, rows |-> r.t.rows, cur |-> r.t.cur,
             ids |-> r.t.ids, was |-> data.tab.ids, res |-> r.res,
             calls |-> r.calls, row |-> r.row,
             before  |-> data.tab.rows,
             added   |-> IF clear THEN 0 ELSE data.tab.added + add,
             deleted |-> IF clear THEN 0 ELSE data.tab.deleted + del]]
    /\ UNCHANGED <<coreVars, conv, builder>>

TableRowCount(rc) ==
    TableDone("row_count", 0, row_count(Native(data.tab), rc), 0, 0, FALSE)

TableAppendRow(ret) ==
    /\ data.tab.rows < MaxRows /\ data.tab.added < MaxAdded
    /\ LET r == append_row(Native(data.tab), ret)
       IN  TableDone("append_row", 0, r, IF r.res.ok THEN 1 ELSE 0, 0, FALSE)

TableGetRow(move, index, rc, row, rowType) ==
    TableDone(move, index, table_get_row(Native(data.tab), move, index, rc, row, rowType),
              0, 0, FALSE)

TableInsertRow(index, rc, ret) ==
    /\ data.tab.rows < MaxRows /\ data.tab.added < MaxAdded
    /\ LET r == insert_row(Native(data.tab), index, rc, ret)
       IN  TableDone("insert_row", index, r, IF r.res.ok THEN 1 ELSE 0, 0, FALSE)

TableDeleteRow(index, rcMove, rcDel) ==
    LET r == delete_row(Native(data.tab), index, rcMove, rcDel)
    IN  TableDone("delete_row", index, r, 0, IF r.res.ok THEN 1 ELSE 0, FALSE)

TableClearRows(rc) ==
    LET r == clear_rows(Native(data.tab), rc)
    IN  TableDone("clear_rows", 0, r, 0, 0, r.res.ok)

TableIndexes == 0..MaxRows
\* an index, the status of RfcMoveTo and what follows it (drawn only when
\* the move succeeded)
InsertInputs == {i \in TableIndexes \X RC \X {Null, RowHandle} :
    is_rc_err(i[2]) => i[3] = RowHandle}
DeleteInputs == {i \in TableIndexes \X RC \X RC : is_rc_err(i[2]) => i[3] = RFC_OK}
\* a move with its index (0 for the moves that take none), then GetRowInputs
TableGetRowInputs == {i \in TableIndexes \X GetRowInputs :
    i[2][1] # "RfcMoveTo" => i[1] = 0}

NextTable ==
    \/ \E rc \in RC : TableRowCount(rc)
    \/ \E ret \in {Null, RowHandle} : TableAppendRow(ret)
    \/ \E i \in TableGetRowInputs : TableGetRow(i[2][1], i[1], i[2][2], i[2][3], i[2][4])
    \/ \E i \in InsertInputs : TableInsertRow(i[1], i[2], i[3])
    \/ \E i \in DeleteInputs : TableDeleteRow(i[1], i[2], i[3])
    \/ \E rc \in RC : TableClearRows(rc)

SpecTable == Init /\ [][NextTable]_vars

\* ------------------------------------------------------------------------
\* Row structures and the RfcTable values they borrow
\* ------------------------------------------------------------------------
Tabs == data.rv.tabs
RowsOf(ids) == {ids[k] : k \in 1..Len(ids)}
HeldRows == UNION {Tabs[tb].held : tb \in TabIds}

\* &self / &'row self of RfcTable: possible unless a row structure holds
\* the &'row mut borrow of this value
SharedBorrow(tb) == Tabs[tb].st = "live" /\ ~Tabs[tb].excl

\* &mut self of RfcTable: possible when no row structure borrows this value
ExclusiveBorrow(tb) ==
    Tabs[tb].st = "live" /\ Tabs[tb].held = {} /\ ~Tabs[tb].excl

\* one operation through the RfcTable tb: the library's table after it
\* (only its rows and cursor are kept here), the row structures of tb after
\* it, and the live row structures, of any RfcTable of the parameter, whose
\* row it removed
RowsStep(tb, r, held, excl) ==
    LET gone == RowsOf(data.tab.ids) \ RowsOf(r.t.ids)
        hit  == {<<u, id>> : u \in TabIds, id \in gone}
    IN  /\ data' = [data EXCEPT
                !.tab = [@ EXCEPT !.rows = r.t.rows, !.cur = r.t.cur, !.ids = r.t.ids],
                !.rv  = [@ EXCEPT !.tabs[tb].held = held, !.tabs[tb].excl = excl,
                                  !.dangling = @ \cup
                                      {x \in hit : x[2] \in Tabs[x[1]].held}]]
        /\ UNCHANGED <<coreVars, conv, builder>>

\* RfcFunction::get_table / RfcParameter::as_table once the library has
\* answered: RfcTable::new over &'func of the function's container, a
\* shared borrow, so that several RfcTable values of one parameter coexist
RowsGetTable(tb) ==
    /\ Tabs[tb].st = "absent"
    /\ data' = [data EXCEPT !.rv.tabs[tb] = [NoTab EXCEPT !.st = "live"]]
    /\ UNCHANGED <<coreVars, conv, builder>>

\* an RfcTable goes out of scope: not while a row structure borrows it
RowsDropTable(tb) ==
    /\ Tabs[tb].st = "live" /\ Tabs[tb].held = {}
    /\ data' = [data EXCEPT !.rv.tabs[tb] = NoTab]
    /\ UNCHANGED <<coreVars, conv, builder>>

\* RfcTable::get_row / get_first_row / get_last_row (&'row self)
RowGet(tb, move, index, rc, row, rowType) ==
    /\ SharedBorrow(tb)
    /\ Cardinality(HeldRows) < MaxRowViews
    /\ LET r == table_get_row(Native(data.tab), move, index, rc, row, rowType)
       IN  RowsStep(tb, r,
                    Tabs[tb].held \cup (IF r.res.ok THEN {r.row} ELSE {}), FALSE)

\* RfcTable::append_row (&'row mut self)
RowAppend(tb, ret) ==
    /\ ExclusiveBorrow(tb)
    /\ Cardinality(HeldRows) < MaxRowViews
    /\ data.tab.rows < MaxViewedRows
    /\ LET r == append_row(Native(data.tab), ret)
       IN  RowsStep(tb, r, IF r.res.ok THEN {r.row} ELSE {}, r.res.ok)

\* RfcTable::insert_row (&'row mut self)
RowInsert(tb, index, rc, ret) ==
    /\ ExclusiveBorrow(tb)
    /\ Cardinality(HeldRows) < MaxRowViews
    /\ data.tab.rows < MaxViewedRows
    /\ LET r == insert_row(Native(data.tab), index, rc, ret)
       IN  RowsStep(tb, r, IF r.res.ok THEN {r.row} ELSE {}, r.res.ok)

\* RfcTable::delete_row (&mut self)
RowDelete(tb, index, rcMove, rcDel) ==
    /\ ExclusiveBorrow(tb)
    /\ LET r == delete_row(Native(data.tab), index, rcMove, rcDel)
       IN  RowsStep(tb, r, {}, FALSE)

\* RfcTable::clear_rows (&mut self)
RowClear(tb, rc) ==
    /\ ExclusiveBorrow(tb)
    /\ LET r == clear_rows(Native(data.tab), rc)
       IN  RowsStep(tb, r, {}, FALSE)

\* an accessor of a row RfcStructure (set_int, get_int, set_string, ...):
\* a native call on the row handle the structure stores
RowUse(tb, row) ==
    /\ Tabs[tb].st = "live" /\ row \in Tabs[tb].held
    /\ data' = [data EXCEPT !.rv.use =
            [tab |-> tb, row |-> row, removed |-> <<tb, row>> \in data.rv.dangling]]
    /\ UNCHANGED <<coreVars, conv, builder>>

\* a row RfcStructure goes out of scope and its borrow of the table ends
RowDrop(tb, row) ==
    /\ Tabs[tb].st = "live" /\ row \in Tabs[tb].held
    /\ data' = [data EXCEPT !.rv.tabs[tb].held = @ \ {row},
                            !.rv.tabs[tb].excl = FALSE,
                            !.rv.dangling = @ \ {<<tb, row>>}]
    /\ UNCHANGED <<coreVars, conv, builder>>

\* the inputs of the table operations, for indexes up to MaxViewedRows
RowIndexInputs == 0..MaxViewedRows
RowGetInputs == {i \in TableGetRowInputs : i[1] \in RowIndexInputs}
RowInsertInputs == {i \in InsertInputs : i[1] \in RowIndexInputs}
RowDeleteInputs == {i \in DeleteInputs : i[1] \in RowIndexInputs}
ViewedRows == 1..(MaxRows + 1)

NextRows ==
    \/ \E tb \in TabIds : RowsGetTable(tb)
    \/ \E tb \in TabIds : RowsDropTable(tb)
    \/ \E tb \in TabIds, i \in RowGetInputs :
          RowGet(tb, i[2][1], i[1], i[2][2], i[2][3], i[2][4])
    \/ \E tb \in TabIds, ret \in {Null, RowHandle} : RowAppend(tb, ret)
    \/ \E tb \in TabIds, i \in RowInsertInputs : RowInsert(tb, i[1], i[2], i[3])
    \/ \E tb \in TabIds, i \in RowDeleteInputs : RowDelete(tb, i[1], i[2], i[3])
    \/ \E tb \in TabIds, rc \in RC : RowClear(tb, rc)
    \/ \E tb \in TabIds, row \in ViewedRows : RowUse(tb, row)
    \/ \E tb \in TabIds, row \in ViewedRows : RowDrop(tb, row)

SpecRows == Init /\ [][NextRows]_vars

\* ------------------------------------------------------------------------
\* Properties
\* ------------------------------------------------------------------------
Calls == last.calls
Final == last.calls[Len(last.calls)]

\* the caller's scope has unwound: every object of the binding is gone
ScopeUnwound ==
    /\ conn.st = "dropped"
    /\ \A f \in FuncIds : funcs[f].st # "live"
    /\ \A v \in ViewIds : views[v].st = "absent"

\* C1: once the caller's scope has unwound, every acquisition of a native
\* handle (connection, description, instance) has been matched by exactly
\* one release call on that handle, also when get_function obtained the
\* description and RfcCreateFunction then returned null.
C1_EveryHandleReleasedOnce ==
    ScopeUnwound => \A h \in {ConnHandle} \cup DescHandles \cup FuncHandles :
                        rel[h] = acq[h]

\* C2: however often the release path of a Connection or a Function runs,
\* it issues each of its native release calls at most once: later runs find
\* the null sentinel and call nothing.
C2_ReleaseAtMostOnce ==
    /\ conn.closes <= 1
    /\ \A f \in FuncIds : funcs[f].nFunc <= 1 /\ funcs[f].nDesc <= 1
    /\ (conn.st = "dropped" /\ conn.closes = 1) => conn.handle = Null

C2_Witness ==
    /\ last.op = "drop_func" /\ last.calls = <<>>
    /\ funcs[last.obj].nFunc = 1 /\ funcs[last.obj].nDesc = 1
    /\ conn.closes = 1

\* entry points that take a data container handle or the connection handle
ContainerFns ==
    {"RfcInvoke", "RfcPing", "RfcGetFunctionDesc", "RfcSetInt", "RfcGetInt",
     "RfcSetString", "RfcGetStringLength", "RfcGetString", "RfcGetStructure",
     "RfcGetTable", "RfcDescribeType", "RfcGetRowCount", "RfcDeleteAllRows",
     "RfcGetCurrentRow", "RfcGetRowType"} \cup MoveFn

\* C3: a Function's handles are destroyed before the Connection it borrows
\* is closed, and no get/set, row access or invoke is ever issued on a
\* container handle whose Function was released or on a closed connection.
C3_NoUseAfterRelease ==
    /\ stale \cap ContainerFns = {}
    /\ conn.st = "dropped" =>
          \A f \in FuncIds : funcs[f].func = Null /\ funcs[f].desc = Null
    /\ \A v \in ViewIds : views[v].st = "live" =>
          /\ funcs[views[v].owner].st = "live"
          /\ funcs[views[v].owner].func \in nativeLive
          /\ conn.handle \in nativeLive

C3_Witness ==
    /\ conn.st = "dropped" /\ conn.closes = 1
    /\ \E f \in FuncIds : funcs[f].st = "dropped" /\ funcs[f].nFunc = 1

\* C4: releasing a Function issues RfcDestroyFunction before
\* RfcDestroyFunctionDesc, attempts the description destroy whatever the
\* instance destroy returned, and leaves both stored handles null whatever
\* either call returned.
C4_DestroyOrder ==
    last.op = "drop_func" =>
        /\ funcs[last.obj].func = Null /\ funcs[last.obj].desc = Null
        /\ \/ Calls = <<>>
           \/ /\ Len(Calls) = 2
              /\ Calls[1].fn = "RfcDestroyFunction" /\ Calls[1].h \in FuncHandles
              /\ Calls[2].fn = "RfcDestroyFunctionDesc" /\ Calls[2].h \in DescHandles

C4_Witness ==
    /\ last.op = "drop_func" /\ Len(Calls) = 2
    /\ is_rc_err(Calls[1].rc) /\ is_rc_err(Calls[2].rc)

\* C5: during Function release the description destroy logs a warning iff
\* its status is neither RFC_OK nor RFC_ILLEGAL_STATE, and the instance
\* destroy logs a warning for every non-OK status, RFC_ILLEGAL_STATE
\* included.
C5_IllegalStateOnlyForDesc ==
    (last.op = "drop_func" /\ Len(Calls) = 2) =>
        /\ "Function discard failed" \in last.warns <=> Calls[1].rc # RFC_OK
        /\ "Function description discard failed" \in last.warns
              <=> Calls[2].rc \notin {RFC_OK, RFC_ILLEGAL_STATE}

C5_Witness ==
    /\ last.op = "drop_func" /\ Len(Calls) = 2
    /\ Calls[1].rc = RFC_ILLEGAL_STATE /\ Calls[2].rc = RFC_ILLEGAL_STATE
    /\ last.warns = {"Function discard failed"}

C7_OpenAndHandleInvariant ==
    /\ last.op = "open" =>
          /\ last.res.ok <=> Calls[1].ret # Null
          /\ last.res.ok => (conn.st = "live" /\ conn.handle = Calls[1].ret)
          /\ ~last.res.ok => (conn.st = "absent" /\ last.res.err = Calls[1].err)
    /\ conn.st = "live" => conn.handle # Null
    /\ conn.st = "dropped" => conn.handle = Null

C7_Witness ==
    /\ conn.st = "dropped" /\ conn.closes = 1 /\ conn.handle = Null

\* operations that return the outcome of status-returning native calls
StatusOps ==
    {"ping", "invoke", "get_parameter", "get_int", "set_int", "get_string",
     "set_string", "row_count", "clear_rows", "get_row", "struct_set_int",
     "struct_get_int"}

\* every status is checked before the next native call: a call is followed
\* by another only if it returned RFC_OK, or is the converter's first
\* attempt reporting RFC_BUFFER_TOO_SMALL
CheckedImmediately ==
    \A i \in 1..(Len(Calls) - 1) :
        \/ Calls[i].rc = RFC_OK
        \/ /\ Calls[i].rc = RFC_BUFFER_TOO_SMALL
           /\ Calls[i].fn \in {"RfcUTF8ToSAPUC", "RfcSAPUCToUTF8"}
           /\ Calls[i + 1].fn = Calls[i].fn

C8_NoConcurrentUse ==
    \A t1, t2 \in Threads :
        (t1 # t2 /\ inNative[t1].h # Null) => inNative[t1].h # inNative[t2].h

\* C9: recycle succeeds exactly when the mutex is not poisoned and the ping
\* sent under it returned RFC_OK; on a poisoned mutex it fails and sends no
\* ping; an object whose recycle failed is never handed out again; at most
\* one task is inside the wrapper's closure at a time.
C9_RecycleAndExclusiveAccess ==
    /\ last.op = "recycle" =>
          /\ last.res.ok <=> /\ ~pool[last.obj].poisoned
                              /\ Len(Calls) = 1
                              /\ Calls[1].fn = "RfcPing"
                              /\ Calls[1].rc = RFC_OK
          /\ pool[last.obj].poisoned => (~last.res.ok /\ Calls = <<>>)
          /\ last.res.ok <=> pool[last.obj].st = "inuse"
    /\ \A s \in Slots :
          /\ pool[s].st = "inuse" => pool[s].gen \notin pool[s].failed
          /\ Cardinality(pool[s].inside) <= 1

C9_Witness ==
    /\ last.op = "recycle"
    /\ pool[last.obj].poisoned
    /\ ~last.res.ok
    /\ Calls = <<>>
    /\ pool[last.obj].gen \in pool[last.obj].failed

\* the native calls of the last operation to entry point fn, in order
CallsTo(fn) == SelectSeq(Calls, LAMBDA c : c.fn = fn)

\* C11: get_function resolves the description first and creates the instance
\* only from a non-null description; a null description or a null instance
\* makes it return the ErrorInfo of that native call (no instance creation
\* after a null description); otherwise the Function holds the description
\* handle in its description slot and the instance handle in its instance
\* slot, and borrows the connection.
C11_GetFunctionSlots ==
    last.op = "get_function" =>
        LET d == CallsTo("RfcGetFunctionDesc")
            c == CallsTo("RfcCreateFunction")
        IN  /\ Len(d) <= 1 /\ Len(c) <= 1
            /\ Len(c) = 1 => (Len(d) = 1 /\ d[1].ret # Null /\ c[1].h = d[1].ret
                              /\ Final = c[1] /\ Calls[Len(Calls) - 1] = d[1])
            /\ (Len(d) = 1 /\ d[1].ret = Null) =>
                  (Len(c) = 0 /\ ~last.res.ok /\ last.res.err = d[1].err)
            /\ (Len(d) = 1 /\ d[1].ret # Null) => Len(c) = 1
            /\ (Len(c) = 1 /\ c[1].ret = Null) =>
                  (~last.res.ok /\ last.res.err = c[1].err)
            /\ Len(d) = 1 => d[1].h = conn.handle
            /\ last.res.ok <=> (Len(c) = 1 /\ c[1].ret # Null)
            /\ last.res.ok =>
                  /\ funcs[last.obj].st = "live"
                  /\ funcs[last.obj].desc = d[1].ret
                  /\ funcs[last.obj].func = c[1].ret
                  /\ funcs[last.obj].desc # funcs[last.obj].func
                  /\ ConnBorrowed
            /\ ~last.res.ok => funcs[last.obj].st # "live"

C11_Witness ==
    /\ last.op = "get_function"
    /\ last.res.ok
    /\ funcs[last.obj].desc \in DescHandles
    /\ funcs[last.obj].func \in FuncHandles

\* C12 as stated: for every text x, decoding the encoded x gives x again,
\* with to_string_truncate as with str_from_sap_uc.
C12_Original ==
    conv.op = "roundtrip" =>
        /\ conv.enc.res.ok
        /\ conv.dec.res.ok /\ conv.dec.res.val = Utf8(conv.x)
        /\ conv.old.res.ok /\ conv.old.res.val = Utf8(conv.x)

\* the text up to its first U+0000
UpToNul(x) == SubSeq(x, 1, ZeroPosition(x))

\* C12 (amended): decoding the encoded x with to_string_truncate gives x
\* up to its first U+0000, hence x itself when x holds no U+0000;
\* str_from_sap_uc gives x for every x; with or without the retry.
C12_RoundTripUpToNul ==
    conv.op = "roundtrip" =>
        /\ conv.enc.res.ok /\ conv.enc.res.val = Units(conv.x)
        /\ conv.dec.res.ok /\ conv.dec.res.val = Utf8(UpToNul(conv.x))
        /\ (\A i \in 1..Len(conv.x) : conv.x[i] # 0) => conv.dec.res.val = Utf8(conv.x)
        /\ conv.old.res.ok /\ conv.old.res.val = Utf8(conv.x)
        /\ ~conv.dec.panic /\ ~conv.old.panic

C12_Witness ==
    /\ conv.op = "roundtrip"
    /\ Len(conv.x) = MaxStrLen
    /\ \A i \in 1..Len(conv.x) : conv.x[i] # 0
    /\ conv.dec.retried
    /\ conv.dec.res.val = Utf8(conv.x)

\* C13: encoding a name longer than the name field succeeds and yields the
\* field filled with the first characters of the name, as many as the
\* field holds; no error is returned.
C13_LongNameTruncated ==
    (conv.op = "abap_name" /\ Len(Units(conv.x)) >= RFC_ABAP_NAME_LEN) =>
        /\ conv.res.ok
        /\ Len(conv.res.val) = RFC_ABAP_NAME_LEN
        /\ \A i \in 1..(RFC_ABAP_NAME_LEN - 1) : conv.res.val[i] = Units(conv.x)[i]

\* C14: custom(message) returns, for a message of any length, a record with
\* the unknown-error code, the external-application-failure group and the
\* message, cut to the width of the message field when it is longer; it
\* never panics.
C14_CustomAnyLength ==
    conv.op = "custom" =>
        /\ ~conv.res.panic
        /\ conv.res.code = RFC_UNKNOWN_ERROR
        /\ conv.res.group = EXTERNAL_APPLICATION_FAILURE
        /\ Len(conv.res.message) = MESSAGE_LEN
        /\ \A i \in 1..(MESSAGE_LEN - 1) :
              conv.res.message[i] = IF i <= Len(conv.x) THEN Units(conv.x)[i] ELSE 0

\* the bytes the library writes for the first n units of u
ConvertedBytes(u, n) == Utf8(CodePoints(SubSeq(u, 1, n)))

\* a decode that met converted bytes which are not legal UTF-8 returned the
\* locally built ErrorInfo, and did not panic
DecodeErrorSurfaced(r, bytes) ==
    /\ ~r.panic
    /\ r.res.ok => (ValidUtf8(bytes) /\ r.res.val = bytes)
    /\ (~conv.strict /\ ~ValidUtf8(bytes)) =>
          /\ ~r.res.ok
          /\ r.res.err.code = RFC_UNKNOWN_ERROR
          /\ r.res.err.group = EXTERNAL_APPLICATION_FAILURE
          /\ SubSeq(r.res.err.message, 1, 47) = Units(FromUtf8Error_to_string)

\* C15: decoding a buffer whose converted bytes are not legal UTF-8
\* returns an ErrorInfo with the unknown-error code and the
\* external-application-failure group and never panics, for the decode of
\* a given length (as get_string calls it) and for the truncating decode.
C15_InvalidUtf8IsAnError ==
    conv.op = "decode" =>
        /\ DecodeErrorSurfaced(conv.whole, ConvertedBytes(conv.x, Len(conv.x)))
        /\ DecodeErrorSurfaced(conv.trunc, ConvertedBytes(conv.x, ZeroPosition(conv.x)))

C15_Witness ==
    /\ conv.op = "decode"
    /\ ~conv.strict
    /\ ~conv.whole.res.ok /\ conv.whole.res.err.code = RFC_UNKNOWN_ERROR
    /\ ~conv.trunc.res.ok /\ conv.trunc.res.err.code = RFC_UNKNOWN_ERROR
    /\ ~ValidUtf8(ConvertedBytes(conv.x, ZeroPosition(conv.x)))

\* the keys set so far, and the value of the last set_param for a key
KeysSet == {builder.hist[i].key : i \in 1..Len(builder.hist)}
LastSet(key) ==
    builder.hist[CHOOSE i \in 1..Len(builder.hist) :
        /\ builder.hist[i].key = key
        /\ \A j \in (i + 1)..Len(builder.hist) : builder.hist[j].key # key].value

\* C16: build hands to RfcOpenConnection exactly one (name, value) pair per
\* distinct key that was set, the value being the text of the last
\* set_param for that key.
C16_LastWriteWins ==
    builder.op = "built" =>
        /\ builder.out.called
        /\ Len(builder.out.passed) = Cardinality(KeysSet)
        /\ {builder.out.passed[i] : i \in 1..Len(builder.out.passed)}
             = {<<Units(k), Units(value_to_string(LastSet(k)))>> : k \in KeysSet}

C16_Witness ==
    /\ builder.op = "built"
    /\ Len(builder.hist) = MaxSets
    /\ Cardinality(KeysSet) = 2
    /\ \E i \in 1..Len(builder.hist) :
          /\ builder.hist[i].key = Dest
          /\ value_to_string(builder.hist[i].value) # value_to_string(LastSet(Dest))

\* C17: for_dest(name) makes the same RfcOpenConnection call, with the one
\* pair ("dest", name), and returns the same result as
\* builder().set_param("dest", name).build().
C17_ForDestIsBuilder ==
    builder.op = "for_dest" =>
        /\ builder.out =
             build(set_param(NoBuilder.params, Dest,
                             [isInt |-> FALSE, n |-> 0, s |-> builder.name]),
                   <<Dest>>, builder.term, builder.ret)
        /\ builder.out.called
        /\ builder.out.passed = <<<<Units(Dest), Units(builder.name)>>>>
        /\ builder.out.res = RfcConnection_new(builder.ret)

C17_Witness ==
    /\ builder.op = "for_dest"
    /\ builder.out.called
    /\ builder.out.res.ok
    /\ builder.out.passed[1][2] = Units(builder.name)

\* C18: get_string after a successful set_string(value) on the same field
\* returns exactly value, for every value; the fetch buffer is at least the
\* queried length plus one and the text has the length the fetch reported.
C18_GetAfterSet ==
    (data.str.op = "get_string" /\ data.str.setOk) =>
        /\ data.str.res.ok => /\ data.str.res.val = Utf8(data.str.value)
                               /\ data.str.bufLen >= data.str.queried + 1
                               /\ data.str.reported = Len(Units(data.str.value))

\* C19: with an echo module, what get_string / get_int read after a
\* successful invoke is what set_string / set_int wrote before it, for every
\* value written.
C19_EchoReadsBack ==
    /\ (data.echo.op = "get_string" /\ data.echo.strSet /\ data.echo.res.ok)
            => data.echo.res.val = Utf8(data.echo.value)
    /\ (data.echo.op = "get_int" /\ data.echo.field \in data.echo.wrote
            /\ data.echo.res.ok)
            => data.echo.res.val = data.echo.written[data.echo.field]

\* C20: the rows of a table number the rows reported appended or inserted
\* minus the rows reported deleted since the last clear, and row_count
\* returns that number; a successful delete_row lowers it by one,
\* clear_rows makes it 0, a failed operation leaves it unchanged.
C20_RowCountTracksRows ==
    /\ data.tab.rows = data.tab.added - data.tab.deleted
    /\ (data.tab.op = "row_count" /\ data.tab.res.ok)
            => data.tab.res.val = data.tab.added - data.tab.deleted
    /\ (data.tab.op = "delete_row" /\ data.tab.res.ok)
            => data.tab.rows = data.tab.before - 1
    /\ (data.tab.op = "clear_rows" /\ data.tab.res.ok) => data.tab.rows = 0
    /\ ~data.tab.res.ok => data.tab.rows = data.tab.before

\* three rows appended and counted, and a delete_row that succeeded
C20_Witness ==
    /\ data.tab.op = "row_count" /\ data.tab.res.ok
    /\ data.tab.added = 3 /\ data.tab.deleted = 1 /\ data.tab.res.val = 2

\* C21: get_structure / get_table give what get_parameter followed by
\* as_structure / as_table gives: a failed lookup by name ends the call with
\* its error and no native get; a failed native get (the parameter is of
\* another type) ends it with its error and no describe call; a null
\* description is an error; every failure produces no view; otherwise the
\* view of the asked kind is produced from the handle the native get wrote.
C21_ShortcutIsTwoSteps ==
    last.op \in {"get_struct", "get_table"} =>
      LET kind  == IF last.op = "get_struct" THEN "struct" ELSE "table"
          getFn == IF kind = "struct" THEN "RfcGetStructure" ELSE "RfcGetTable"
          look  == CallsTo("RfcGetParameterDescByName")
          get   == CallsTo(getFn)
          desc  == CallsTo("RfcDescribeType")
          enc   == CallsTo("RfcUTF8ToSAPUC")
          v     == last.obj
      IN  /\ Len(look) <= 1 /\ Len(get) <= 1 /\ Len(desc) <= 1
          /\ Len(look) = 0 => (~last.res.ok /\ last.res.err = enc[Len(enc)].err)
          /\ (Len(look) = 1 /\ is_rc_err(look[1].rc))
                => (~last.res.ok /\ last.res.err = look[1].err /\ Len(get) = 0)
          /\ (Len(look) = 1 /\ ~is_rc_err(look[1].rc)) => Len(get) = 1
          /\ (Len(get) = 1 /\ is_rc_err(get[1].rc))
                => (~last.res.ok /\ last.res.err = get[1].err /\ Len(desc) = 0)
          /\ (Len(get) = 1 /\ ~is_rc_err(get[1].rc)) => Len(desc) = 1
          /\ (Len(desc) = 1 /\ desc[1].ret = Null)
                => (~last.res.ok /\ last.res.err = desc[1].err)
          /\ (Len(desc) = 1 /\ desc[1].ret # Null)
                => (last.res.ok /\ views[v].st = "live" /\ views[v].kind = kind
                    /\ views[v].sub = SubHandle(v))
          /\ ~last.res.ok => views[v].st = "absent"
          /\ Len(get) = 0 => Len(desc) = 0

\* get_table produced a table view; the three failures are separate cases
C21_Witness ==
    /\ last.op = "get_table" /\ last.res.ok
    /\ views[last.obj].kind = "table"

\* C22: the capability checks are functions of the stored descriptor alone,
\* with no native call: is_import exactly for direction import or changing,
\* is_export exactly for export or changing, is_table exactly for direction
\* tables or type table, is_optional exactly for flag 1, is_structure
\* exactly for type structure.
C22_CapabilitiesReadDescriptor ==
    conv.op = "caps" =>
        /\ conv.calls = <<>>
        /\ conv.is_import <=> conv.desc.direction \in {"RFC_IMPORT", "RFC_CHANGING"}
        /\ conv.is_export <=> conv.desc.direction \in {"RFC_EXPORT", "RFC_CHANGING"}
        /\ conv.is_table <=> (conv.desc.direction = "RFC_TABLES"
                                \/ conv.desc.type_ = "RFCTYPE_TABLE")
        /\ conv.is_optional <=> conv.desc.optional = 1
        /\ conv.is_structure <=> conv.desc.type_ = "RFCTYPE_STRUCTURE"

\* a tables parameter whose type is not table, with an optional flag of 2
C22_Witness ==
    /\ conv.op = "caps" /\ conv.desc.direction = "RFC_TABLES"
    /\ conv.desc.type_ = "RFCTYPE_STRUCTURE" /\ conv.desc.optional = 2
    /\ conv.is_table /\ ~conv.is_optional /\ ~conv.is_import

\* C23: from_str calls the converter at most twice: first with capacity
\* input length + 1; a second time only when the first call reported
\* RFC_BUFFER_TOO_SMALL, with a capacity of at least the size that call
\* reported; every other failure of the first call and every failure of the
\* second is returned as the error, and on success the Vec has the result
\* length the converter reported.
C23_EncodeRetriesOnce ==
    conv.op = "encode" =>
      LET calls == conv.out.calls
          fin   == calls[Len(calls)]
      IN  /\ Len(calls) \in {1, 2}
          /\ calls[1].cap = conv.n + 1
          /\ Len(calls) = 2 <=> calls[1].rc = RFC_BUFFER_TOO_SMALL
          /\ Len(calls) = 2 => calls[2].cap >= calls[1].size
          /\ conv.out.res.ok <=> fin.rc = RFC_OK
          /\ ~conv.out.res.ok => conv.out.res.err.code = fin.rc
          /\ conv.out.res.ok => conv.out.res.val = fin.len

\* the retry was made with a larger buffer and failed with
\* RFC_BUFFER_TOO_SMALL again, or succeeded with a length below the capacity
C23_Witness ==
    /\ conv.op = "encode" /\ Len(conv.out.calls) = 2
    /\ conv.out.calls[2].cap > conv.out.calls[1].cap
    /\ conv.out.res.ok /\ conv.out.res.val < conv.out.calls[2].cap

\* C24: in get_row, get_first_row, get_last_row, insert_row and delete_row a
\* failed move is the returned error and the last native call on the table;
\* after a successful move the row handed out, inserted or deleted is the
\* one at the position the move selected.
C24_MoveThenAct ==
    LET t      == data.tab
        target == CASE t.op = "RfcMoveToFirstRow" -> 0
                    [] t.op = "RfcMoveToLastRow" -> Len(t.was) - 1
                    [] OTHER -> t.index
    IN  t.op \in MoveFn \cup {"insert_row", "delete_row"} =>
          /\ is_rc_err(t.calls[1].rc)
                => (Len(t.calls) = 1 /\ ~t.res.ok /\ t.res.err = t.calls[1].err
                    /\ t.ids = t.was)
          /\ ~is_rc_err(t.calls[1].rc) => (Len(t.calls) >= 2 /\ target \in 0..(Len(t.was) - 1))
          /\ (t.op \in MoveFn /\ t.res.ok)
                => (t.row = t.was[target + 1] /\ t.ids = t.was)
          /\ (t.op = "insert_row" /\ t.res.ok)
                => /\ t.ids = SubSeq(t.was, 1, target) \o <<t.row>>
                              \o SubSeq(t.was, target + 1, Len(t.was))
                   /\ \A k \in 1..Len(t.was) : t.was[k] # t.row
          /\ (t.op = "delete_row" /\ t.res.ok)
                => /\ t.row = t.was[target + 1]
                   /\ t.ids = SubSeq(t.was, 1, target)
                              \o SubSeq(t.was, target + 2, Len(t.was))

\* the middle one of three rows was deleted
C24_Witness ==
    /\ data.tab.op = "delete_row" /\ data.tab.res.ok
    /\ Len(data.tab.was) = 3 /\ data.tab.index = 1
    /\ data.tab.row = data.tab.was[2]

\* C25: get_string queries the length first and, when the query fails,
\* returns its error without a fetch; otherwise it fetches once into a buffer
\* of exactly the queried length + 1 and decodes exactly as many units as
\* the fetch reported.  set_string encodes once and makes one native set
\* call, none when the encoding fails.
C25_TwoPhaseGetOneCallSet ==
    LET f == data.str
    IN  /\ f.op = "get_string" =>
              /\ Len(f.calls) \in {1, 2} /\ f.calls[1].fn = "RfcGetStringLength"
              /\ is_rc_err(f.calls[1].rc)
                    => (Len(f.calls) = 1 /\ ~f.res.ok /\ f.res.err = f.calls[1].err)
              /\ ~is_rc_err(f.calls[1].rc)
                    => /\ Len(f.calls) = 2 /\ f.calls[2].fn = "RfcGetString"
                       /\ f.bufLen = f.queried + 1
                       /\ is_rc_err(f.calls[2].rc)
                             => (~f.res.ok /\ f.res.err = f.calls[2].err)
                       /\ ~is_rc_err(f.calls[2].rc) => f.decoded = f.reported
        /\ f.op = "set_string" =>
              /\ f.encoded => (Len(f.calls) = 1 /\ f.calls[1].fn = "RfcSetString")
              /\ ~f.encoded => (f.calls = <<>> /\ ~f.res.ok)

\* a fetch of three units into a buffer of four; the failed query and the
\* failed encoding are cases of their own
C25_Witness ==
    /\ data.str.op = "get_string" /\ data.str.res.ok
    /\ data.str.queried = 3 /\ data.str.bufLen = 4 /\ data.str.decoded = 3

\* C26: to_string_truncate decodes exactly the units ahead of the first zero
\* unit, or all of them when there is none: its result is the decode of that
\* prefix standing alone, whatever follows the zero, and the empty text
\* for a buffer that starts with a zero.
C26_TruncateAtFirstNul ==
    conv.op = "decode" =>
        /\ \E k \in 0..Len(conv.x) :
              /\ \A i \in 1..k : conv.x[i] # 0
              /\ k = Len(conv.x) \/ conv.x[k + 1] = 0
              /\ conv.trunc = uc_to_string(SubSeq(conv.x, 1, k), k, conv.term, conv.strict)
        /\ (Len(conv.x) > 0 /\ conv.x[1] = 0)
              => (conv.trunc.res.ok /\ conv.trunc.res.val = <<>>)

\* a letter, a zero, then a lone surrogate that the decode never sees
C26_Witness ==
    /\ conv.op = "decode" /\ conv.x = <<65, 0, 55357>>
    /\ conv.trunc.res.ok /\ conv.trunc.res.val = <<65>>
    /\ ~conv.whole.res.ok

\* C27: in every variant of set_string the length handed to RfcSetString is
\* the number of units of the encoded buffer, never more, and not the byte
\* length of the host text.
C27_SetLengthIsUnitCount ==
    (data.str.op = "set_string" /\ data.str.encoded) =>
        data.str.passed = Len(Units(data.str.value))

\* C28: an operation that returns an error leaves the Connection and every
\* Function as they were, their stored handles non-null, so that later
\* operations find them usable; each stored handle is released exactly
\* once when its owner is dropped.
C28_FailureKeepsHandles ==
    /\ [](/\ conn.st = "live" => (conn.handle # Null /\ conn.handle \in nativeLive)
          /\ conn.st = "dropped" => (conn.handle = Null /\ conn.closes = 1)
          /\ \A f \in FuncIds :
                /\ funcs[f].st = "live" =>
                      (funcs[f].func \in nativeLive /\ funcs[f].desc # Null)
                /\ funcs[f].st = "dropped" =>
                      (funcs[f].nFunc = 1 /\ funcs[f].nDesc = 1))
    /\ [][~last'.res.ok => (conn' = conn /\ funcs' = funcs)]_vars

\* a ping failed while a Function exists, and both are still usable
C28_Witness ==
    /\ last.op = "ping" /\ ~last.res.ok
    /\ conn.st = "live" /\ conn.handle = ConnHandle
    /\ \E f \in FuncIds : funcs[f].st = "live" /\ funcs[f].func = FuncHandle(f)

\* the runtime refused every description destroy of the trace, which is its
\* answer for a description held in its cache (function.rs:80-82)
CachedRefusal(calls) ==
    \A i \in 1..Len(calls) :
        calls[i].fn = "RfcDestroyFunctionDesc" => calls[i].rc = RFC_ILLEGAL_STATE

C30_NoRowUsedAfterRemoval == ~data.rv.use.removed

====
